---- MODULE Spec2Model ----
(***************************************************************************)
(* A model of tuifade: fading the colours of the segments of an ANSI       *)
(* string towards the terminal's colours.                                  *)
(*                                                                         *)
(* The repository holds three revisions of the package side by side:       *)
(*   R1  src/tuifade.go:1-222       strings.Builder, updateSegmentColours   *)
(*   R2  src/unnamed/part_000:32-409 process-wide colour/interpolation cache*)
(*   R3  src/tuifade.go:224-531     Interpolation result struct, rebuilt    *)
(*                                  segments                                *)
(* The variable rev says which one a behaviour runs.                       *)
(*                                                                         *)
(* Strings are sequences of one-character strings.  An interpolation       *)
(* factor is an integer n standing for the float64 n / Den, Den a power of *)
(* two, so that the float arithmetic of the code is exact on every factor  *)
(* of the model.  HSL components are fixed point, in thousandths.          *)
(* go-ansi-parser (Parse, String) is external: a content is given by the   *)
(* segments Parse returns for it, and an output by the segments handed to  *)
(* String.                                                                 *)
(***************************************************************************)
EXTENDS Integers, Sequences, FiniteSets, TLC

VARIABLES
    rev,            \* the revision of the package the process runs
    pc,             \* "idle" | "fade" (inside fade's loop) | "done"
    interpCache,    \* R2: globalInterpolationCache.cache, key -> hex
    rgbCache,       \* R2: globalColourCache.rgb, hex -> rgb
    hslCache,       \* R2: globalColourCache.hsl, hex -> hsl
    call,           \* the arguments of the call in progress or just returned
    parsed,         \* fade: the segments Parse returned (R1, R2 write to them)
    fadedSegments,  \* fade R3: the segments rebuilt so far
    builder,        \* fade R1: the segment strings written so far
    idx,            \* fade: how many segments the loop has processed
    ret,            \* what the last call returned
    conv,           \* a conversion helper applied on its own: input and result
    goroutines,     \* R2: the goroutines inside a cache operation
    mu              \* R2: the RWMutex of each of the two caches

vars == <<rev, pc, interpCache, rgbCache, hslCache, call, parsed,
          fadedSegments, builder, idx, ret, conv, goroutines, mu>>

-----------------------------------------------------------------------------
(* Bounds *)

\* Den = 2^FactorBits: the resolution of the interpolation factors.
FactorBits == 21
\* The longest content, in segments.
MaxSegs == 2

\* Direct calls of Interpolate: the most entries the interpolation cache may
\* hold when a further call is made.
MaxWarm == 1

Den == 2 ^ FactorBits

-----------------------------------------------------------------------------
(* Characters and strings *)

LowerHex == <<"0", "1", "2", "3", "4", "5", "6", "7", "8", "9",
              "a", "b", "c", "d", "e", "f">>
UpperHex == <<"0", "1", "2", "3", "4", "5", "6", "7", "8", "9",
              "A", "B", "C", "D", "E", "F">>

isHexDigit(c) == \E i \in 1..16 : LowerHex[i] = c \/ UpperHex[i] = c

hexDigitValue(c) == (CHOOSE i \in 1..16 : LowerHex[i] = c \/ UpperHex[i] = c) - 1

isSpace(c) == c = " "

nil == "nil"

-----------------------------------------------------------------------------
(* ColorMath *)

\* With(e, LAMBDA x : body) is LET x == e IN body, with e evaluated once.
With(v, Op(_)) == CHOOSE y \in {Op(x) : x \in {v}} : TRUE

zeroRgb == [R |-> 0, G |-> 0, B |-> 0]
zeroHsl == [H |-> 0, S |-> 0, L |-> 0]

\* fmt's SkipSpace: the first position at or after p that holds no space.
RECURSIVE SkipSpace(_, _)
SkipSpace(s, p) ==
    IF p <= Len(s) /\ isSpace(s[p]) THEN SkipSpace(s, p + 1) ELSE p

\* fmt's scan of one %02x verb into a uint8, from position p: spaces are
\* skipped, then one or two hex digits are read (2 is a maximum width).
scanUint(s, p) ==
    With(SkipSpace(s, p), LAMBDA q :
        IF q > Len(s) THEN [err |-> "unexpected EOF", val |-> 0, next |-> q]
        ELSE IF ~isHexDigit(s[q])
        THEN [err |-> "expected integer", val |-> 0, next |-> q]
        ELSE IF q + 1 <= Len(s) /\ isHexDigit(s[q + 1])
        THEN [err |-> nil,
              val |-> 16 * hexDigitValue(s[q]) + hexDigitValue(s[q + 1]),
              next |-> q + 2]
        ELSE [err |-> nil, val |-> hexDigitValue(s[q]), next |-> q + 1])

\* A variant of hexToRGB that scans into &b, &g, &r.
hexToRGBSwapped(hex) ==
    IF Len(hex) = 0 THEN [rgb |-> zeroRgb, err |-> "unexpected EOF"]
    ELSE IF hex[1] # "#"
    THEN [rgb |-> zeroRgb, err |-> "input does not match format"]
    ELSE
    With(scanUint(hex, 2), LAMBDA r :
    IF r.err # nil THEN [rgb |-> zeroRgb, err |-> r.err] ELSE
    With(scanUint(hex, r.next), LAMBDA g :
    IF g.err # nil THEN [rgb |-> zeroRgb, err |-> g.err] ELSE
    With(scanUint(hex, g.next), LAMBDA b :
    IF b.err # nil THEN [rgb |-> zeroRgb, err |-> b.err] ELSE
    [rgb |-> [R |-> b.val, G |-> g.val, B |-> r.val], err |-> nil])))

\* hexToRGB: fmt.Sscanf(hex, "#%02x%02x%02x", &r, &g, &b).  Input left over
\* after the third verb is not an error.
hexToRGB(hex) ==
    IF Len(hex) = 0 THEN [rgb |-> zeroRgb, err |-> "unexpected EOF"]
    ELSE IF hex[1] # "#"
    THEN [rgb |-> zeroRgb, err |-> "input does not match format"]
    ELSE
    With(scanUint(hex, 2), LAMBDA r :
    IF r.err # nil THEN [rgb |-> zeroRgb, err |-> r.err] ELSE
    With(scanUint(hex, r.next), LAMBDA g :
    IF g.err # nil THEN [rgb |-> zeroRgb, err |-> g.err] ELSE
    With(scanUint(hex, g.next), LAMBDA b :
    IF b.err # nil THEN [rgb |-> zeroRgb, err |-> b.err] ELSE
    [rgb |-> [R |-> r.val, G |-> g.val, B |-> b.val], err |-> nil])))

\* A variant of the channel format with upper case digits (%02X).
hex2Upper(v) == <<UpperHex[(v \div 16) + 1], UpperHex[(v % 16) + 1]>>

\* %02x of one channel.
hex2(v) == <<LowerHex[(v \div 16) + 1], LowerHex[(v % 16) + 1]>>

\* A variant of rgbToHex that prints rgb.B, rgb.G, rgb.R.
rgbToHexBgr(rgb) == <<"#">> \o hex2(rgb.B) \o hex2(rgb.G) \o hex2(rgb.R)

\* rgbToHex: fmt.Sprintf("#%02x%02x%02x", rgb.R, rgb.G, rgb.B).
rgbToHex(rgb) == <<"#">> \o hex2(rgb.R) \o hex2(rgb.G) \o hex2(rgb.B)

\* A variant of the rounding that drops the fraction.
Truncate(x) == IF x >= 0 THEN x \div Den ELSE -((-x) \div Den)

\* math.Round of x / Den: to the nearest integer, halves away from zero.
Round(x) ==
    IF x >= 0
    THEN (x \div Den) + (IF 2 * (x % Den) >= Den THEN 1 ELSE 0)
    ELSE -(((-x) \div Den) + (IF 2 * ((-x) % Den) >= Den THEN 1 ELSE 0))

\* A variant of interpolateChannel that does not weigh the background.
interpolateChannelUnweighted(bg, fg, bgWeight, fgWeight) ==
    Round(bg * Den + fg * fgWeight) % 256

\* interpolateChannel: uint8(math.Round(bg*bgWeight + fg*fgWeight)); the
\* weights are numerators over Den.
interpolateChannel(bg, fg, bgWeight, fgWeight) ==
    Round(bg * bgWeight + fg * fgWeight) % 256

\* A variant of the clamp that leaves factors above 1 as they are.
clampBelowOnly(interpolation) ==
    IF interpolation < 0 THEN 0 ELSE interpolation

\* The clamp of Interpolate: below 0 is 0, above 1 is 1.
clamp(interpolation) ==
    IF interpolation < 0 THEN 0
    ELSE IF interpolation > Den THEN Den
    ELSE interpolation

\* A variant of the three channels with the two weights exchanged.
interpolateRgbSwapped(background, foreground, interpolation) ==
    With(clamp(interpolation), LAMBDA f :
        [R |-> interpolateChannel(background.R, foreground.R, f, Den - f),
         G |-> interpolateChannel(background.G, foreground.G, f, Den - f),
         B |-> interpolateChannel(background.B, foreground.B, f, Den - f)])

\* The three channels of Interpolate, from the two parsed colours.
interpolateRgb(background, foreground, interpolation) ==
    With(clamp(interpolation), LAMBDA f :
        [R |-> interpolateChannel(background.R, foreground.R, Den - f, f),
         G |-> interpolateChannel(background.G, foreground.G, Den - f, f),
         B |-> interpolateChannel(background.B, foreground.B, Den - f, f)])

\* go-colorful's delinearize (linear RGB to sRGB) of v/255, in thousandths.
delinearize == <<
    0, 50, 85, 111, 132, 150, 166, 181, 194, 207, 219, 230, 240, 250, 260, 269, 278, 286,
    295, 303, 310, 318, 325, 332, 339, 346, 352, 359, 365, 371, 378, 383, 389, 395, 401,
    406, 412, 417, 422, 427, 433, 438, 443, 448, 452, 457, 462, 466, 471, 476, 480, 485,
    489, 493, 498, 502, 506, 510, 514, 518, 522, 526, 530, 534, 538, 542, 546, 549, 553,
    557, 561, 564, 568, 571, 575, 579, 582, 586, 589, 592, 596, 599, 603, 606, 609, 613,
    616, 619, 622, 625, 629, 632, 635, 638, 641, 644, 647, 650, 653, 656, 659, 662, 665,
    668, 671, 674, 677, 680, 683, 685, 688, 691, 694, 697, 699, 702, 705, 708, 710, 713,
    716, 718, 721, 724, 726, 729, 731, 734, 737, 739, 742, 744, 747, 749, 752, 754, 757,
    759, 762, 764, 767, 769, 772, 774, 776, 779, 781, 784, 786, 788, 791, 793, 795, 798,
    800, 802, 805, 807, 809, 812, 814, 816, 818, 821, 823, 825, 827, 829, 832, 834, 836,
    838, 840, 843, 845, 847, 849, 851, 853, 855, 857, 860, 862, 864, 866, 868, 870, 872,
    874, 876, 878, 880, 882, 884, 886, 888, 890, 892, 894, 896, 898, 900, 902, 904, 906,
    908, 910, 912, 914, 916, 918, 920, 922, 924, 926, 928, 930, 931, 933, 935, 937, 939,
    941, 943, 945, 946, 948, 950, 952, 954, 956, 957, 959, 961, 963, 965, 967, 968, 970,
    972, 974, 975, 977, 979, 981, 983, 984, 986, 988, 990, 991, 993, 995, 997, 998, 1000>>

Max2(a, b) == IF a >= b THEN a ELSE b
Min2(a, b) == IF a <= b THEN a ELSE b

\* colorful.Color.Hsl of the sRGB colour (r, g, b), max and min its largest
\* and smallest channel: H in degrees, S and L in [0,1], in thousandths.
Hsl(r, g, b, max, min) ==
    IF min = max THEN [H |-> 0, S |-> 0, L |-> (max + min) \div 2]
    ELSE With(IF max = r THEN ((g - b) * 1000) \div (max - min)
              ELSE IF max = g THEN 2000 + ((b - r) * 1000) \div (max - min)
              ELSE 4000 + ((r - g) * 1000) \div (max - min),
         LAMBDA h :
           [H |-> IF 60 * h < 0 THEN 60 * h + 360000 ELSE 60 * h,
            S |-> IF (max + min) \div 2 < 500
                  THEN ((max - min) * 1000) \div (max + min)
                  ELSE ((max - min) * 1000) \div (2000 - max - min),
            L |-> (max + min) \div 2])

\* colorful.LinearRgb(r, g, b).Hsl()
linearRgbHsl(r, g, b) == Hsl(r, g, b, Max2(Max2(r, g), b), Min2(Min2(r, g), b))

\* rgbToHSL: colorful.LinearRgb(R/255, G/255, B/255).Hsl().
rgbToHSL(rgb) ==
    With(delinearize, LAMBDA d : linearRgbHsl(d[rgb.R + 1], d[rgb.G + 1], d[rgb.B + 1]))

\* The library's H, S, L times 360, 100, 100.
scaleHsl(v) == [H |-> v.H * 360, S |-> v.S * 100, L |-> v.L * 100]

\* R1 hexToHSL
hexToHSL(hex) ==
    With(hexToRGB(hex), LAMBDA c :
        IF c.err # nil THEN [hsl |-> zeroHsl, err |-> c.err]
        ELSE [hsl |-> scaleHsl(rgbToHSL(c.rgb)), err |-> nil])

-----------------------------------------------------------------------------
(* Interpolate, R1: src/tuifade.go:147-173 *)

InterpolateR1(hexBackground, hexForeground, interpolation) ==
    With(hexToRGB(hexBackground), LAMBDA background :
    IF background.err # nil THEN [hex |-> <<>>, err |-> background.err] ELSE
    With(hexToRGB(hexForeground), LAMBDA foreground :
    IF foreground.err # nil THEN [hex |-> <<>>, err |-> foreground.err] ELSE
    [hex |-> rgbToHex(interpolateRgb(background.rgb, foreground.rgb,
                                     interpolation)),
     err |-> nil]))

-----------------------------------------------------------------------------
(* The caches and Interpolate, R2: src/unnamed/part_000 *)

\* The decimal digits of a natural number.
RECURSIVE decimal(_)
decimal(n) ==
    IF n < 10 THEN <<LowerHex[n + 1]>>
    ELSE decimal(n \div 10) \o <<LowerHex[(n % 10) + 1]>>

\* k digits of the decimal expansion of r / Den, r < Den, by long division:
\* the digits read so far as a number, and the remainder.
RECURSIVE longDivision(_, _, _)
longDivision(r, k, acc) ==
    IF k = 0 THEN [q |-> acc, r |-> r]
    ELSE longDivision((r * 10) % Den, k - 1, acc * 10 + ((r * 10) \div Den))

\* The six digits after the point, zero padded.
sixDigits(q) ==
    [i \in 1..6 |-> LowerHex[((q \div (10 ^ (6 - i))) % 10) + 1]]

\* The digits of |n| / Den to six places, from the whole part and the long
\* division d of the rest: rounded to nearest, exact halves to even.
roundedDigits(whole, d) ==
    With(IF 2 * d.r > Den \/ (2 * d.r = Den /\ d.q % 2 = 1) THEN d.q + 1 ELSE d.q,
         LAMBDA q :
           IF q = 1000000 THEN decimal(whole + 1) \o <<".">> \o sixDigits(0)
           ELSE decimal(whole) \o <<".">> \o sixDigits(q))

\* fmt's %.6f of the float64 n / Den.
formatFloat6(n) ==
    IF n < 0
    THEN <<"-">> \o roundedDigits((-n) \div Den, longDivision((-n) % Den, 6, 0))
    ELSE roundedDigits(n \div Den, longDivision(n % Den, 6, 0))

\* generateCacheKey: fmt.Sprintf("%s_%s_%.6f", background, foreground,
\* interpolation).
generateCacheKey(background, foreground, interpolation) ==
    background \o <<"_">> \o foreground \o <<"_">> \o formatFloat6(interpolation)

\* A map with one more entry.
store(map, key, value) == (key :> value) @@ map

emptyMap == <<>>

\* colourCache.getRGB run alone: the cached value, or the conversion, stored
\* when it succeeds.
getRGB(rgb, hex) ==
    IF hex \in DOMAIN rgb THEN [rgb |-> rgb[hex], err |-> nil, cache |-> rgb]
    ELSE With(hexToRGB(hex), LAMBDA c :
         IF c.err # nil THEN [rgb |-> zeroRgb, err |-> c.err, cache |-> rgb]
         ELSE [rgb |-> c.rgb, err |-> nil, cache |-> store(rgb, hex, c.rgb)])

\* colourCache.getHSL run alone.
getHSL(rgb, hsl, hex) ==
    IF hex \in DOMAIN hsl
    THEN [hsl |-> hsl[hex], err |-> nil, rgbCache |-> rgb, hslCache |-> hsl]
    ELSE With(getRGB(rgb, hex), LAMBDA c :
         IF c.err # nil
         THEN [hsl |-> zeroHsl, err |-> c.err,
               rgbCache |-> c.cache, hslCache |-> hsl]
         ELSE With(scaleHsl(rgbToHSL(c.rgb)), LAMBDA result :
              [hsl |-> result, err |-> nil,
               rgbCache |-> c.cache, hslCache |-> store(hsl, hex, result)]))

\* Interpolate, R2: the interpolation cache is read before anything is parsed.
InterpolateR2(cache, rgb, hexBackground, hexForeground, interpolation) ==
    With(generateCacheKey(hexBackground, hexForeground, interpolation),
         LAMBDA key :
    IF key \in DOMAIN cache
    THEN [hex |-> cache[key], err |-> nil,
          interpCache |-> cache, rgbCache |-> rgb]
    ELSE
    With(getRGB(rgb, hexBackground), LAMBDA background :
    IF background.err # nil
    THEN [hex |-> <<>>, err |-> background.err,
          interpCache |-> cache, rgbCache |-> background.cache]
    ELSE
    With(getRGB(background.cache, hexForeground), LAMBDA foreground :
    IF foreground.err # nil
    THEN [hex |-> <<>>, err |-> foreground.err,
          interpCache |-> cache, rgbCache |-> foreground.cache]
    ELSE
    With(rgbToHex(interpolateRgb(background.rgb, foreground.rgb, interpolation)),
         LAMBDA result :
    [hex |-> result, err |-> nil,
     interpCache |-> store(cache, key, result),
     rgbCache |-> foreground.cache]))))

-----------------------------------------------------------------------------
(* Interpolate, R3: src/tuifade.go:428-469 *)

zeroResult == [Hex |-> <<>>, Rgb |-> zeroRgb, Hsl |-> zeroHsl]

\* The Result of a successful Interpolate, from the interpolated channels.
InterpolationResult(c) == [Hex |-> rgbToHex(c), Rgb |-> c, Hsl |-> rgbToHSL(c)]

\* A variant of Interpolate that blends from the foreground to the background.
InterpolateR3Reversed(hexBackground, hexForeground, interpolation) ==
    With([OriginalForeground |-> hexForeground,
          OriginalBackground |-> hexBackground,
          Interpolated |-> interpolation,
          Result |-> zeroResult], LAMBDA result :
    With(hexToRGB(hexBackground), LAMBDA background :
    IF background.err # nil THEN [val |-> result, err |-> background.err] ELSE
    With(hexToRGB(hexForeground), LAMBDA foreground :
    IF foreground.err # nil THEN [val |-> result, err |-> foreground.err] ELSE
    [val |-> [result EXCEPT !.Result =
                InterpolationResult(interpolateRgb(foreground.rgb,
                                                   background.rgb,
                                                   interpolation))],
     err |-> nil])))

InterpolateR3(hexBackground, hexForeground, interpolation) ==
    With([OriginalForeground |-> hexForeground,
          OriginalBackground |-> hexBackground,
          Interpolated |-> interpolation,
          Result |-> zeroResult], LAMBDA result :
    With(hexToRGB(hexBackground), LAMBDA background :
    IF background.err # nil THEN [val |-> result, err |-> background.err] ELSE
    With(hexToRGB(hexForeground), LAMBDA foreground :
    IF foreground.err # nil THEN [val |-> result, err |-> foreground.err] ELSE
    [val |-> [result EXCEPT !.Result =
                InterpolationResult(interpolateRgb(background.rgb,
                                                   foreground.rgb,
                                                   interpolation))],
     err |-> nil])))

-----------------------------------------------------------------------------
(* Segments: ansiParse.StyledText and ansiParse.Col *)

\* A *Col: the nil pointer, or a descriptor.
nilCol == [isNil |-> TRUE, Id |-> 0, Name |-> "", Hex |-> <<>>,
           Rgb |-> zeroRgb, Hsl |-> zeroHsl]
\* &ansiParse.Col{}
emptyCol == [nilCol EXCEPT !.isNil = FALSE]

\* The test both fade loops make: col != nil && col.Hex != "".
hasColour(col) == ~col.isNil /\ col.Hex # <<>>

orEmpty(col) == IF col.isNil THEN emptyCol ELSE col

\* A variant of colourModeFromProfile that tests for the 256 colour profile
\* alone.
colourModeFromProfileNoTrueColour(profile) ==
    IF profile = "ANSI256" THEN "TwoFiveSix" ELSE "Default"

\* colourModeFromProfile
colourModeFromProfile(profile) ==
    IF profile = "TrueColor" THEN "TrueColour"
    ELSE IF profile = "ANSI256" THEN "TwoFiveSix"
    ELSE "Default"

-----------------------------------------------------------------------------
(* The body of fade's loop, R1: src/tuifade.go:54-93 *)

\* The second half of updateSegmentColours: the foreground.
updateSegmentColoursFg(s, fgCol) ==
    With(hexToRGB(fgCol), LAMBDA fgRgb :
    IF fgRgb.err # nil THEN s ELSE
    With(hexToHSL(fgCol), LAMBDA fgHsl :
    IF fgHsl.err # nil THEN [s EXCEPT !.FgCol.Rgb = fgRgb.rgb]
    ELSE [s EXCEPT !.FgCol.Rgb = fgRgb.rgb, !.FgCol.Hsl = fgHsl.hsl]))

\* updateSegmentColours: every failed conversion returns early, silently.
updateSegmentColours(segment, bgCol, fgCol) ==
    With([segment EXCEPT !.BgCol = [orEmpty(@) EXCEPT !.Hex = bgCol],
                         !.FgCol = orEmpty(@)], LAMBDA s :
    With(hexToRGB(bgCol), LAMBDA bgRgb :
    IF bgRgb.err # nil THEN s ELSE
    With(hexToHSL(bgCol), LAMBDA bgHsl :
    IF bgHsl.err # nil THEN [s EXCEPT !.BgCol.Rgb = bgRgb.rgb]
    ELSE updateSegmentColoursFg(
            [s EXCEPT !.BgCol.Rgb = bgRgb.rgb, !.BgCol.Hsl = bgHsl.hsl,
                      !.FgCol.Hex = fgCol],
            fgCol))))

\* The foreground half of an iteration, bgCol being the background it fades
\* against.
fadeForegroundR1(s, bgCol, termFg, interpolation) ==
    With(IF hasColour(s.FgCol)
         THEN InterpolateR1(bgCol, s.FgCol.Hex, interpolation)
         ELSE InterpolateR1(bgCol, termFg, interpolation), LAMBDA fg :
    IF fg.err # nil
    THEN [segment |-> [s EXCEPT !.FgCol = orEmpty(@)], err |-> fg.err]
    ELSE [segment |-> updateSegmentColours([s EXCEPT !.FgCol = orEmpty(@)],
                                           bgCol, fg.hex),
          err |-> nil])

\* One iteration: the segment as the iteration leaves it, and the error the
\* iteration returns with (nil: the segment was written to the builder).
fadeSegmentR1(segment, termBg, termFg, colourMode, interpolation) ==
    With([segment EXCEPT !.ColourMode = colourMode], LAMBDA s :
    With(IF hasColour(s.BgCol) /\ s.BgCol.Hex # termBg
         THEN InterpolateR1(termBg, s.BgCol.Hex, interpolation)
         ELSE [hex |-> termBg, err |-> nil], LAMBDA bg :
    IF bg.err # nil THEN [segment |-> s, err |-> bg.err]
    ELSE fadeForegroundR1(s, bg.hex, termFg, interpolation)))

-----------------------------------------------------------------------------
(* The body of fade's loop, R2: src/unnamed/part_000:195-245 *)

updateSegmentForegroundColoursR2(segment, fgCol, rgb, hsl) ==
    With([segment EXCEPT !.FgCol = [orEmpty(@) EXCEPT !.Hex = fgCol]],
         LAMBDA s :
    With(getRGB(rgb, fgCol), LAMBDA fgRgb :
    IF fgRgb.err # nil
    THEN [segment |-> s, err |-> fgRgb.err,
          rgbCache |-> fgRgb.cache, hslCache |-> hsl]
    ELSE
    With(getHSL(fgRgb.cache, hsl, fgCol), LAMBDA fgHsl :
    IF fgHsl.err # nil
    THEN [segment |-> [s EXCEPT !.FgCol.Rgb = fgRgb.rgb], err |-> fgHsl.err,
          rgbCache |-> fgHsl.rgbCache, hslCache |-> fgHsl.hslCache]
    ELSE [segment |-> [s EXCEPT !.FgCol.Rgb = fgRgb.rgb,
                                !.FgCol.Hsl = fgHsl.hsl],
          err |-> nil,
          rgbCache |-> fgHsl.rgbCache, hslCache |-> fgHsl.hslCache])))

\* A variant of updateSegmentBackgroundColours that returns before it writes.
updateSegmentBackgroundColoursR2Unwritten(segment, bgCol, rgb, hsl) ==
    [segment |-> segment, err |-> nil, rgbCache |-> rgb, hslCache |-> hsl]

updateSegmentBackgroundColoursR2(segment, bgCol, rgb, hsl) ==
    IF segment.BgCol.isNil
    THEN [segment |-> segment, err |-> nil, rgbCache |-> rgb, hslCache |-> hsl]
    ELSE
    With([segment EXCEPT !.BgCol.Hex = bgCol], LAMBDA s :
    With(getRGB(rgb, bgCol), LAMBDA bgRgb :
    IF bgRgb.err # nil
    THEN [segment |-> s, err |-> bgRgb.err,
          rgbCache |-> bgRgb.cache, hslCache |-> hsl]
    ELSE
    With(getHSL(bgRgb.cache, hsl, bgCol), LAMBDA bgHsl :
    IF bgHsl.err # nil
    THEN [segment |-> [s EXCEPT !.BgCol.Rgb = bgRgb.rgb], err |-> bgHsl.err,
          rgbCache |-> bgHsl.rgbCache, hslCache |-> bgHsl.hslCache]
    ELSE [segment |-> [s EXCEPT !.BgCol.Rgb = bgRgb.rgb,
                                !.BgCol.Hsl = bgHsl.hsl],
          err |-> nil,
          rgbCache |-> bgHsl.rgbCache, hslCache |-> bgHsl.hslCache])))

\* The background half of an iteration: the segment, bgCol, the error it
\* returns with, and the three caches.
fadeBackgroundR2(segment, termBg, interpolation, cache, rgb, hsl) ==
    IF ~(hasColour(segment.BgCol) /\ segment.BgCol.Hex # termBg)
    THEN [segment |-> segment, bgCol |-> termBg, err |-> nil,
          interpCache |-> cache, rgbCache |-> rgb, hslCache |-> hsl]
    ELSE
    With(InterpolateR2(cache, rgb, termBg, segment.BgCol.Hex, interpolation),
         LAMBDA i :
    IF i.err # nil
    THEN [segment |-> segment, bgCol |-> i.hex, err |-> i.err,
          interpCache |-> i.interpCache, rgbCache |-> i.rgbCache,
          hslCache |-> hsl]
    ELSE
    With(updateSegmentBackgroundColoursR2(segment, i.hex, i.rgbCache, hsl),
         LAMBDA u :
    [segment |-> u.segment, bgCol |-> i.hex, err |-> u.err,
     interpCache |-> i.interpCache, rgbCache |-> u.rgbCache,
     hslCache |-> u.hslCache]))

\* The foreground half, from what the background half left in b.
fadeForegroundR2(b, termFg, interpolation) ==
    With(InterpolateR2(b.interpCache, b.rgbCache, b.bgCol,
                       IF hasColour(b.segment.FgCol)
                       THEN b.segment.FgCol.Hex ELSE termFg,
                       interpolation), LAMBDA i :
    IF i.err # nil
    THEN [segment |-> [b.segment EXCEPT !.FgCol = orEmpty(@)], err |-> i.err,
          interpCache |-> i.interpCache, rgbCache |-> i.rgbCache,
          hslCache |-> b.hslCache]
    ELSE
    With(updateSegmentForegroundColoursR2(b.segment, i.hex, i.rgbCache,
                                          b.hslCache), LAMBDA u :
    [segment |-> u.segment, err |-> u.err, interpCache |-> i.interpCache,
     rgbCache |-> u.rgbCache, hslCache |-> u.hslCache]))

fadeSegmentR2(segment, termBg, termFg, colourMode, interpolation, cache, rgb, hsl) ==
    With(fadeBackgroundR2([segment EXCEPT !.ColourMode = colourMode],
                          termBg, interpolation, cache, rgb, hsl), LAMBDA b :
    IF b.err # nil
    THEN [segment |-> b.segment, err |-> b.err,
          interpCache |-> b.interpCache, rgbCache |-> b.rgbCache,
          hslCache |-> b.hslCache]
    ELSE fadeForegroundR2(b, termFg, interpolation))

-----------------------------------------------------------------------------
(* The body of fade's loop, R3: src/tuifade.go:294-351 *)

newCol(id, name, colours) ==
    [isNil |-> FALSE, Id |-> id, Name |-> name, Hex |-> colours.Hex,
     Rgb |-> colours.Rgb, Hsl |-> colours.Hsl]

updateSegmentForegroundColoursR3(segment, colours) ==
    [segment EXCEPT !.FgCol = newCol(orEmpty(@).Id, orEmpty(@).Name, colours)]

\* updateSegmentBackgroundColours, R3: Id and Name are read through
\* segment.FgCol, which panics when that pointer is nil.
updateSegmentBackgroundColoursR3(segment, colours) ==
    IF segment.BgCol.isNil THEN [segment |-> segment, panicked |-> FALSE]
    ELSE IF segment.FgCol.isNil THEN [segment |-> segment, panicked |-> TRUE]
    ELSE [segment |-> [segment EXCEPT !.BgCol =
                          newCol(segment.FgCol.Id, segment.FgCol.Name, colours)],
          panicked |-> FALSE]

\* The background half of an iteration: the segment, bgCol, the error it
\* returns with and whether it panicked.
fadeBackgroundR3(segment, originalSegment, termBg, interpolationAmount) ==
    IF ~(hasColour(originalSegment.BgCol) /\ originalSegment.BgCol.Hex # termBg)
    THEN [segment |-> segment, bgCol |-> termBg, err |-> nil,
          panicked |-> FALSE]
    ELSE
    With(InterpolateR3(termBg, originalSegment.BgCol.Hex, interpolationAmount),
         LAMBDA interpolation :
    IF interpolation.err # nil
    THEN [segment |-> segment, bgCol |-> termBg, err |-> interpolation.err,
          panicked |-> FALSE]
    ELSE
    With(updateSegmentBackgroundColoursR3(segment, interpolation.val.Result),
         LAMBDA u :
    [segment |-> u.segment, bgCol |-> interpolation.val.Result.Hex,
     err |-> nil, panicked |-> u.panicked]))

\* A variant of the foreground half that fades the foreground from the
\* segment's own background where it declares one, not from bgCol.
fadeForegroundR3Unchained(b, originalSegment, termFg, interpolationAmount) ==
    With(InterpolateR3(IF hasColour(originalSegment.BgCol)
                       THEN originalSegment.BgCol.Hex ELSE b.bgCol,
                       IF hasColour(originalSegment.FgCol)
                       THEN originalSegment.FgCol.Hex ELSE termFg,
                       interpolationAmount),
         LAMBDA interpolation :
    IF interpolation.err # nil
    THEN [segment |-> b.segment, err |-> interpolation.err, panicked |-> FALSE]
    ELSE [segment |-> updateSegmentForegroundColoursR3(b.segment,
                                                       interpolation.val.Result),
          err |-> nil, panicked |-> FALSE])

\* The foreground half, from what the background half left in b.
fadeForegroundR3(b, originalSegment, termFg, interpolationAmount) ==
    With(IF hasColour(originalSegment.FgCol)
         THEN InterpolateR3(b.bgCol, originalSegment.FgCol.Hex,
                            interpolationAmount)
         ELSE InterpolateR3(b.bgCol, termFg, interpolationAmount),
         LAMBDA interpolation :
    IF interpolation.err # nil
    THEN [segment |-> b.segment, err |-> interpolation.err, panicked |-> FALSE]
    ELSE [segment |-> updateSegmentForegroundColoursR3(b.segment,
                                                       interpolation.val.Result),
          err |-> nil, panicked |-> FALSE])

\* A variant of the iteration that does not copy Style to the rebuilt
\* segment.
fadeSegmentR3NoStyle(originalSegment, termBg, termFg, colourMode, interpolationAmount) ==
    With(fadeBackgroundR3([Label |-> originalSegment.Label,
                           Style |-> "",
                           ColourMode |-> colourMode,
                           Offset |-> originalSegment.Offset,
                           Len |-> originalSegment.Len,
                           FgCol |-> originalSegment.FgCol,
                           BgCol |-> originalSegment.BgCol],
                          originalSegment, termBg, interpolationAmount),
         LAMBDA b :
    IF b.err # nil \/ b.panicked
    THEN [segment |-> b.segment, err |-> b.err, panicked |-> b.panicked]
    ELSE fadeForegroundR3(b, originalSegment, termFg, interpolationAmount))

\* One iteration: the rebuilt segment, the error the iteration returns with,
\* and whether it panicked instead.
fadeSegmentR3(originalSegment, termBg, termFg, colourMode, interpolationAmount) ==
    With(fadeBackgroundR3([Label |-> originalSegment.Label,
                           Style |-> originalSegment.Style,
                           ColourMode |-> colourMode,
                           Offset |-> originalSegment.Offset,
                           Len |-> originalSegment.Len,
                           FgCol |-> originalSegment.FgCol,
                           BgCol |-> originalSegment.BgCol],
                          originalSegment, termBg, interpolationAmount),
         LAMBDA b :
    IF b.err # nil \/ b.panicked
    THEN [segment |-> b.segment, err |-> b.err, panicked |-> b.panicked]
    ELSE fadeForegroundR3(b, originalSegment, termFg, interpolationAmount))

-----------------------------------------------------------------------------
(* Inputs *)

Revisions == {"R1", "R2", "R3"}

black == <<"#", "0", "0", "0", "0", "0", "0">>
white == <<"#", "f", "f", "f", "f", "f", "f">>
red   == <<"#", "f", "f", "0", "0", "0", "0">>
maroon == <<"#", "8", "0", "0", "0", "0", "0">>
blue == <<"#", "0", "0", "0", "0", "f", "f">>
\* "ff0000": no leading '#'
noHash == <<"f", "f", "0", "0", "0", "0">>

\* Descriptors as go-ansi-parser hands them out (its palette: id, name, hex,
\* rgb, and hsl in degrees and percent), HSL in thousandths.
Black == [isNil |-> FALSE, Id |-> 0, Name |-> "Black", Hex |-> black,
          Rgb |-> [R |-> 0, G |-> 0, B |-> 0],
          Hsl |-> [H |-> 0, S |-> 0, L |-> 0]]
Maroon == [isNil |-> FALSE, Id |-> 1, Name |-> "Maroon", Hex |-> maroon,
           Rgb |-> [R |-> 128, G |-> 0, B |-> 0],
           Hsl |-> [H |-> 0, S |-> 100000, L |-> 25000]]
Red == [isNil |-> FALSE, Id |-> 9, Name |-> "Red", Hex |-> red,
        Rgb |-> [R |-> 255, G |-> 0, B |-> 0],
        Hsl |-> [H |-> 0, S |-> 100000, L |-> 50000]]
White == [isNil |-> FALSE, Id |-> 15, Name |-> "White", Hex |-> white,
          Rgb |-> [R |-> 255, G |-> 255, B |-> 255],
          Hsl |-> [H |-> 0, S |-> 0, L |-> 100000]]
\* A descriptor whose hex does not parse.
Broken == [emptyCol EXCEPT !.Id = 256, !.Hex = noHash]

FgCols == {nilCol, emptyCol, Red, Broken}
BgCols == {nilCol, emptyCol, Black, Maroon, White, Broken}

\* The colour pairs of the segments of contents longer than one segment: of
\* the last segment, and of those before it.
CoreShapes == {<<Red, White>>, <<nilCol, nilCol>>, <<Broken, nilCol>>,
               <<nilCol, White>>}
PrefixShapes == {<<Red, White>>, <<nilCol, nilCol>>}

Shapes == {<<>>} \cup {<<s>> : s \in FgCols \X BgCols}
          \cup UNION {{p \o <<l>> : p \in [1..(n - 1) -> PrefixShapes],
                                   l \in CoreShapes} : n \in 2..MaxSegs}

\* Text, style and parser-inferred colour mode of the i-th segment.
Labels == <<"Red text", "Green", "Yellow">>
labelOf(i) == Labels[((i - 1) % 3) + 1]
lenOf(i) == <<8, 5, 6>>[((i - 1) % 3) + 1]
RECURSIVE offsetOf(_)
offsetOf(i) == IF i = 1 THEN 0 ELSE offsetOf(i - 1) + lenOf(i - 1)
styleOf(i) == IF i % 2 = 1 THEN "Bold" ELSE "Underlined"
modeOf(i) == IF i % 2 = 1 THEN "Default" ELSE "TwoFiveSix"

\* What Parse returns for a content.
parse(shapes) ==
    [i \in 1..Len(shapes) |->
        [Label |-> labelOf(i), Style |-> styleOf(i), ColourMode |-> modeOf(i),
         Offset |-> offsetOf(i), Len |-> lenOf(i),
         FgCol |-> shapes[i][1], BgCol |-> shapes[i][2]]]

Contents == {parse(sh) : sh \in Shapes}

\* Terminal background and foreground, as fade receives them from its caller
\* or Fade from termenv.
TermColours == {<<black, white>>, <<white, black>>, <<maroon, white>>,
                <<black, blue>>, <<noHash, white>>, <<black, noHash>>}

\* Factors: -1, 0, just under 1/2, 1/2, 1, 2.
Factors == {-Den, 0, (Den \div 2) - 1, Den \div 2, Den, 2 * Den}

\* Fade does not ask termenv for the colours when the profile is not true
\* colour.
NotQueried == <<<<>>, <<>>>>

ColourModes == {"Default", "TrueColour"}
Profiles == {"TrueColor", "ANSI256", "ANSI", "Ascii"}

\* The arguments of the direct calls of Interpolate.
InterpolateArgs == {black, noHash} \X {white, noHash}
                   \X {(Den \div 2) - 1, Den \div 2}

-----------------------------------------------------------------------------
(* The state machine *)

noCall == [api |-> "none", content |-> <<>>, termBg |-> <<>>, termFg |-> <<>>,
           colourMode |-> "", profile |-> "", interpolation |-> 0,
           hexBackground |-> <<>>, hexForeground |-> <<>>]

emptyString == [kind |-> "empty", segs |-> <<>>]
\* The input string itself.
raw(content) == [kind |-> "raw", segs |-> content]
\* ansiParse.String of segments (R1: the builder's segment strings).
String(segs) == [kind |-> "ansi", segs |-> segs]

noRet == [state |-> "none", out |-> emptyString, err |-> nil, val |-> zeroResult]

returned(out, err) ==
    [state |-> "returned", out |-> out, err |-> err, val |-> zeroResult]

\* No conversion helper is applied on its own.
noConv == [fn |-> "none", hex |-> <<>>, rgb |-> zeroRgb, err |-> nil]

\* No goroutine is inside a cache operation, and both mutexes are free.
noGoroutines == <<>>
unlocked == [colour |-> [readers |-> {}, writer |-> 0],
             interp |-> [readers |-> {}, writer |-> 0]]

Init ==
    /\ rev \in Revisions
    /\ pc = "idle"
    /\ interpCache = emptyMap
    /\ rgbCache = emptyMap
    /\ hslCache = emptyMap
    /\ call = noCall
    /\ parsed = <<>>
    /\ fadedSegments = <<>>
    /\ builder = <<>>
    /\ idx = 0
    /\ ret = noRet
    /\ conv = noConv
    /\ goroutines = noGoroutines
    /\ mu = unlocked

\* The segments fade hands to the serializer.
handedOver ==
    IF rev = "R1" THEN builder
    ELSE IF rev = "R2" THEN parsed
    ELSE fadedSegments

\* A variant of the return on an error that keeps what the loop built.
failedKeepingOutput(err) == returned(String(handedOver), err)

\* fade's return on an error inside the loop: return "", err
failed(err) == returned(emptyString, err)

\* The exported Interpolate, called directly.
CallInterpolate(hexBackground, hexForeground, interpolation) ==
    /\ pc = "idle"
    /\ call' = [noCall EXCEPT !.api = "Interpolate",
                              !.hexBackground = hexBackground,
                              !.hexForeground = hexForeground,
                              !.interpolation = interpolation]
    /\ \/ /\ rev = "R1"
          /\ \E i \in {InterpolateR1(hexBackground, hexForeground, interpolation)} :
                ret' = [state |-> "returned", out |-> emptyString, err |-> i.err,
                        val |-> [zeroResult EXCEPT !.Hex = i.hex]]
          /\ UNCHANGED <<interpCache, rgbCache>>
       \/ /\ rev = "R2"
          /\ \E i \in {InterpolateR2(interpCache, rgbCache, hexBackground,
                                      hexForeground, interpolation)} :
                /\ ret' = [state |-> "returned", out |-> emptyString,
                           err |-> i.err,
                           val |-> [zeroResult EXCEPT !.Hex = i.hex]]
                /\ interpCache' = i.interpCache
                /\ rgbCache' = i.rgbCache
       \/ /\ rev = "R3"
          /\ \E i \in {InterpolateR3(hexBackground, hexForeground, interpolation)} :
                ret' = [state |-> "returned", out |-> emptyString, err |-> i.err,
                        val |-> i.val.Result]
          /\ UNCHANGED <<interpCache, rgbCache>>
    /\ UNCHANGED <<rev, pc, hslCache, parsed, fadedSegments, builder, idx>>
    /\ UNCHANGED <<conv, goroutines, mu>>

\* fade entered: Parse has run, the loop has not started.
enterFade(api, profile, content, termBg, termFg, colourMode, interpolation) ==
    /\ call' = [noCall EXCEPT !.api = api, !.profile = profile,
                              !.content = content,
                              !.termBg = termBg, !.termFg = termFg,
                              !.colourMode = colourMode,
                              !.interpolation = interpolation]
    /\ pc' = "fade"
    /\ parsed' = content
    /\ fadedSegments' = <<>>
    /\ builder' = <<>>
    /\ idx' = 0
    /\ ret' = noRet

\* The unexported fade, called as the tests call it.
Callfade(content, termBg, termFg, colourMode, interpolation) ==
    /\ pc = "idle"
    /\ enterFade("fade", "", content, termBg, termFg, colourMode, interpolation)
    /\ UNCHANGED <<rev, interpCache, rgbCache, hslCache>>
    /\ UNCHANGED <<conv, goroutines, mu>>

\* The error of Fade on a terminal without true colour.
capabilityError == "fade only supports truecolor terminals"

\* A variant of Fade that fades in the colour mode of whatever profile the
\* terminal has.
CallFadeDegraded(profile, content, termBg, termFg, interpolation) ==
    /\ pc = "idle"
    /\ enterFade("Fade", profile, content, termBg, termFg,
                 colourModeFromProfile(profile), interpolation)
    /\ UNCHANGED <<rev, interpCache, rgbCache, hslCache>>
    /\ UNCHANGED <<conv, goroutines, mu>>

\* The exported Fade: the terminal's profile and colours come from termenv.
CallFade(profile, content, termBg, termFg, interpolation) ==
    /\ pc = "idle"
    /\ IF profile # "TrueColor"
       THEN /\ call' = [noCall EXCEPT !.api = "Fade", !.profile = profile,
                                      !.content = content,
                                      !.interpolation = interpolation]
            /\ ret' = returned(raw(content), capabilityError)
            /\ pc' = "done"
            /\ UNCHANGED <<parsed, fadedSegments, builder, idx>>
       ELSE enterFade("Fade", profile, content, termBg, termFg,
                      colourModeFromProfile(profile), interpolation)
    /\ UNCHANGED <<rev, interpCache, rgbCache, hslCache>>
    /\ UNCHANGED <<conv, goroutines, mu>>

\* One iteration of fade's loop, R1.
FadeSegmentR1 ==
    /\ pc = "fade" /\ rev = "R1" /\ idx < Len(parsed)
    /\ \E r \in {fadeSegmentR1(parsed[idx + 1], call.termBg, call.termFg,
                                call.colourMode, call.interpolation)} :
          /\ parsed' = [parsed EXCEPT ![idx + 1] = r.segment]
          /\ IF r.err # nil
             THEN /\ ret' = failed(r.err)
                  /\ pc' = "done"
                  /\ UNCHANGED <<builder, idx>>
             ELSE /\ builder' = Append(builder, r.segment)
                  /\ idx' = idx + 1
                  /\ UNCHANGED <<ret, pc>>
    /\ UNCHANGED <<rev, interpCache, rgbCache, hslCache, call, fadedSegments>>
    /\ UNCHANGED <<conv, goroutines, mu>>

\* One iteration of fade's loop, R2.
FadeSegmentR2 ==
    /\ pc = "fade" /\ rev = "R2" /\ idx < Len(parsed)
    /\ \E r \in {fadeSegmentR2(parsed[idx + 1], call.termBg, call.termFg,
                                call.colourMode, call.interpolation,
                                interpCache, rgbCache, hslCache)} :
          /\ parsed' = [parsed EXCEPT ![idx + 1] = r.segment]
          /\ interpCache' = r.interpCache
          /\ rgbCache' = r.rgbCache
          /\ hslCache' = r.hslCache
          /\ IF r.err # nil
             THEN /\ ret' = failed(r.err)
                  /\ pc' = "done"
                  /\ UNCHANGED idx
             ELSE /\ idx' = idx + 1
                  /\ UNCHANGED <<ret, pc>>
    /\ UNCHANGED <<rev, call, fadedSegments, builder>>
    /\ UNCHANGED <<conv, goroutines, mu>>

\* A variant of the iteration that leaves out of the output a segment that
\* declares no colour at all.
FadeSegmentR3Skipping ==
    /\ pc = "fade" /\ rev = "R3" /\ idx < Len(parsed)
    /\ \E r \in {fadeSegmentR3(parsed[idx + 1], call.termBg, call.termFg,
                                call.colourMode, call.interpolation)} :
          IF r.panicked
          THEN /\ ret' = [noRet EXCEPT !.state = "panicked"]
               /\ pc' = "done"
               /\ UNCHANGED <<fadedSegments, idx>>
          ELSE IF r.err # nil
          THEN /\ ret' = failed(r.err)
               /\ pc' = "done"
               /\ UNCHANGED <<fadedSegments, idx>>
          ELSE /\ fadedSegments' =
                     IF hasColour(parsed[idx + 1].FgCol)
                        \/ hasColour(parsed[idx + 1].BgCol)
                     THEN Append(fadedSegments, r.segment)
                     ELSE fadedSegments
               /\ idx' = idx + 1
               /\ UNCHANGED <<ret, pc>>
    /\ UNCHANGED <<rev, interpCache, rgbCache, hslCache, call, parsed, builder>>
    /\ UNCHANGED <<conv, goroutines, mu>>

\* One iteration of fade's loop, R3.
FadeSegmentR3 ==
    /\ pc = "fade" /\ rev = "R3" /\ idx < Len(parsed)
    /\ \E r \in {fadeSegmentR3(parsed[idx + 1], call.termBg, call.termFg,
                                call.colourMode, call.interpolation)} :
          IF r.panicked
          THEN /\ ret' = [noRet EXCEPT !.state = "panicked"]
               /\ pc' = "done"
               /\ UNCHANGED <<fadedSegments, idx>>
          ELSE IF r.err # nil
          THEN /\ ret' = failed(r.err)
               /\ pc' = "done"
               /\ UNCHANGED <<fadedSegments, idx>>
          ELSE /\ fadedSegments' = Append(fadedSegments, r.segment)
               /\ idx' = idx + 1
               /\ UNCHANGED <<ret, pc>>
    /\ UNCHANGED <<rev, interpCache, rgbCache, hslCache, call, parsed, builder>>
    /\ UNCHANGED <<conv, goroutines, mu>>

\* The loop is over: fade returns the serialized segments.
FadeReturn ==
    /\ pc = "fade" /\ idx = Len(parsed)
    /\ ret' = returned(String(handedOver), nil)
    /\ pc' = "done"
    /\ UNCHANGED <<rev, interpCache, rgbCache, hslCache, call, parsed,
                   fadedSegments, builder, idx>>
    /\ UNCHANGED <<conv, goroutines, mu>>

Next ==
    \/ \E a \in InterpolateArgs : CallInterpolate(a[1], a[2], a[3])
    \/ \E c \in Contents, t \in TermColours, m \in ColourModes, f \in Factors :
          Callfade(c, t[1], t[2], m, f)
    \/ \E p \in Profiles, c \in Contents, f \in Factors :
          \E t \in (IF p = "TrueColor" THEN TermColours ELSE {NotQueried}) :
             CallFade(p, c, t[1], t[2], f)
    \/ FadeSegmentR1
    \/ FadeSegmentR2
    \/ FadeSegmentR3
    \/ FadeReturn

Spec == Init /\ [][Next]_vars

-----------------------------------------------------------------------------
(* What a caller can observe *)

\* Interpolate as the process computes it in the current state: the hex it
\* returns, and its error.
Interpolate(hexBackground, hexForeground, interpolation) ==
    IF rev = "R1"
    THEN InterpolateR1(hexBackground, hexForeground, interpolation)
    ELSE IF rev = "R2"
    THEN With(InterpolateR2(interpCache, rgbCache, hexBackground,
                            hexForeground, interpolation),
              LAMBDA i : [hex |-> i.hex, err |-> i.err])
    ELSE With(InterpolateR3(hexBackground, hexForeground, interpolation),
              LAMBDA i : [hex |-> i.val.Result.Hex, err |-> i.err])

\* The call in progress, or just over, is one of fade: made directly, or by
\* Fade on a true colour terminal.
inFade ==
    /\ pc \in {"fade", "done"}
    /\ call.api = "fade" \/ (call.api = "Fade" /\ call.profile = "TrueColor")

\* The i-th segment as Parse returned it, and as the loop left it once its
\* iteration was over (i <= idx).
original(i) == call.content[i]
faded(i) == handedOver[i]

\* The test of fade's loop for a background to fade.
fadesBackground(segment) ==
    hasColour(segment.BgCol) /\ segment.BgCol.Hex # call.termBg

\* The background the loop resolves for a segment (bgCol), and the colour it
\* fades the foreground from.
effectiveBg(segment) ==
    IF fadesBackground(segment)
    THEN Interpolate(call.termBg, segment.BgCol.Hex, call.interpolation).hex
    ELSE call.termBg
foregroundSource(segment) ==
    IF hasColour(segment.FgCol) THEN segment.FgCol.Hex ELSE call.termFg

validHex(hex) == hexToRGB(hex).err = nil

\* The terminal colours and every colour a segment declares parse.
validInputs ==
    /\ validHex(call.termBg)
    /\ validHex(call.termFg)
    /\ \A i \in 1..Len(call.content) :
          /\ hasColour(original(i).FgCol) => validHex(original(i).FgCol.Hex)
          /\ hasColour(original(i).BgCol) => validHex(original(i).BgCol.Hex)

-----------------------------------------------------------------------------
(* Claims *)

\* C1: every segment fade has processed that declares a background other
\* than the terminal's and a foreground carries the background
\* fadedBg = Interpolate(terminalBg, segmentBg, factor) and the foreground
\* Interpolate(fadedBg, segmentFg, factor).
C1_ForegroundFromFadedBackground ==
    \A i \in 1..idx :
        (fadesBackground(original(i)) /\ hasColour(original(i).FgCol)) =>
            /\ faded(i).BgCol.Hex =
                  Interpolate(call.termBg, original(i).BgCol.Hex,
                              call.interpolation).hex
            /\ faded(i).FgCol.Hex =
                  Interpolate(Interpolate(call.termBg, original(i).BgCol.Hex,
                                          call.interpolation).hex,
                              original(i).FgCol.Hex, call.interpolation).hex

\* A fade is over whose segment was red on white: its foreground is neither
\* the one fading from the terminal background nor the one fading from the
\* segment's own background would give.
C1_Witness ==
    /\ inFade /\ pc = "done" /\ ret.err = nil
    /\ \E i \in 1..idx :
          /\ fadesBackground(original(i)) /\ hasColour(original(i).FgCol)
          /\ faded(i).FgCol.Hex #
                Interpolate(call.termBg, original(i).FgCol.Hex,
                            call.interpolation).hex
          /\ faded(i).FgCol.Hex #
                Interpolate(original(i).BgCol.Hex, original(i).FgCol.Hex,
                            call.interpolation).hex

\* C2: every processed segment that declared no background (a nil descriptor
\* or an empty hex) has none afterwards: no descriptor was created for it,
\* and none was given a hex.
C2_NoBackgroundAcquired ==
    \A i \in 1..idx :
        ~hasColour(original(i).BgCol) =>
            /\ original(i).BgCol.isNil => faded(i).BgCol.isNil
            /\ ~hasColour(faded(i).BgCol)

\* C3: when the terminal colours and all declared colours parse, a fade that
\* is over has written, to every segment that declared no foreground, a
\* foreground descriptor of colour Interpolate(effectiveBg, terminalFg,
\* factor).
C3_DefaultForeground ==
    (inFade /\ pc = "done" /\ validInputs) =>
        \A i \in 1..Len(call.content) :
            ~hasColour(original(i).FgCol) =>
                /\ i <= idx
                /\ ~faded(i).FgCol.isNil
                /\ faded(i).FgCol.Hex =
                      Interpolate(effectiveBg(original(i)), call.termFg,
                                  call.interpolation).hex

\* C4: every processed segment whose declared background is the terminal's
\* keeps its background descriptor as parsed, and its foreground is faded
\* from the terminal background.
C4_TerminalBackgroundUntouched ==
    \A i \in 1..idx :
        (hasColour(original(i).BgCol) /\ original(i).BgCol.Hex = call.termBg) =>
            /\ faded(i).BgCol = original(i).BgCol
            /\ faded(i).FgCol.Hex =
                  Interpolate(call.termBg, foregroundSource(original(i)),
                              call.interpolation).hex

\* C5: every segment keeps the label, offset, length and style Parse gave
\* it, in the parsed segments fade works on and in the segments it has
\* processed; what remains of a segment is its two colour descriptors and its
\* colour mode.
C5_TextAndStyleKept ==
    /\ \A i \in 1..Len(parsed) :
          /\ parsed[i].Label = original(i).Label
          /\ parsed[i].Offset = original(i).Offset
          /\ parsed[i].Len = original(i).Len
          /\ parsed[i].Style = original(i).Style
    /\ \A i \in 1..idx :
          /\ faded(i).Label = original(i).Label
          /\ faded(i).Offset = original(i).Offset
          /\ faded(i).Len = original(i).Len
          /\ faded(i).Style = original(i).Style
          /\ DOMAIN faded(i) = {"Label", "Offset", "Len", "Style",
                                "ColourMode", "FgCol", "BgCol"}

\* A fade is over that changed both colour descriptors and the colour mode of
\* an underlined segment.
C5_Witness ==
    /\ inFade /\ pc = "done" /\ ret.state = "returned" /\ ret.err = nil
    /\ \E i \in 1..idx :
          /\ original(i).Style = "Underlined"
          /\ faded(i).FgCol # original(i).FgCol
          /\ faded(i).BgCol # original(i).BgCol
          /\ faded(i).ColourMode # original(i).ColourMode

\* C6: when fade succeeds, the segments handed to the serializer are as many
\* as the parsed ones, and the i-th carries the text (label, offset, length)
\* of the i-th parsed segment.
C6_SegmentsKeptInOrder ==
    (inFade /\ pc = "done" /\ ret.state = "returned" /\ ret.err = nil) =>
        /\ ret.out.kind = "ansi"
        /\ Len(ret.out.segs) = Len(call.content)
        /\ \A i \in 1..Len(call.content) :
              /\ ret.out.segs[i].Label = original(i).Label
              /\ ret.out.segs[i].Offset = original(i).Offset
              /\ ret.out.segs[i].Len = original(i).Len

\* A fade of a content of several segments, one of them without any colour,
\* has succeeded.
C6_Witness ==
    /\ inFade /\ pc = "done" /\ ret.state = "returned" /\ ret.err = nil
    /\ Len(call.content) >= 2
    /\ \E i \in 1..Len(call.content) :
          ~hasColour(original(i).FgCol) /\ ~hasColour(original(i).BgCol)
    /\ \E i \in 1..Len(call.content) : hasColour(original(i).FgCol)

\* The iteration of fade over the segment makes a hex parse that fails: of
\* the terminal background or the segment's background when it fades the
\* background, else of the background it resolved or of the foreground it
\* fades (R3 does not get that far when the background update panics).
hexParseFails(segment) ==
    LET bgFails == /\ fadesBackground(segment)
                   /\ ~validHex(call.termBg) \/ ~validHex(segment.BgCol.Hex)
        panics == /\ rev = "R3"
                  /\ fadesBackground(segment)
                  /\ segment.FgCol.isNil
    IN \/ bgFails
       \/ /\ ~panics
          /\ ~validHex(call.termBg) \/ ~validHex(foregroundSource(segment))

\* C7: a step of fade's loop in which a hex parse fails ends the call at that
\* segment: fade returns the error and the empty string, whatever the loop
\* had built.
C7_ParseFailureAbortsFade ==
    [][(pc = "fade" /\ idx < Len(parsed) /\ hexParseFails(parsed[idx + 1])) =>
          /\ pc' = "done"
          /\ idx' = idx
          /\ ret'.state = "returned"
          /\ ret'.err # nil
          /\ ret'.err = hexToRGB(IF ~validHex(call.termBg) THEN call.termBg
                                 ELSE IF fadesBackground(parsed[idx + 1])
                                         /\ ~validHex(parsed[idx + 1].BgCol.Hex)
                                 THEN parsed[idx + 1].BgCol.Hex
                                 ELSE foregroundSource(parsed[idx + 1])).err
          /\ ret'.out = emptyString]_vars

\* A fade has failed after it had processed a segment, and returned the
\* empty string.
C7_Witness ==
    /\ inFade /\ pc = "done" /\ ret.state = "returned" /\ ret.err # nil
    /\ idx >= 1 /\ idx < Len(call.content)
    /\ handedOver # <<>>
    /\ ret.out = emptyString

\* C8: when the terminal colours and every colour a segment declares parse,
\* a fade that is over has returned, and without an error.
C8_OnlyHexParseFails ==
    (inFade /\ pc = "done" /\ validInputs) =>
        (ret.state = "returned" /\ ret.err = nil)

\* C9: Fade on a terminal whose profile is not true colour returns the
\* content as it is with an error, and neither parses nor touches a cache;
\* no other call returns that error.
C9_NoFadeWithoutTrueColour ==
    /\ []((call.api = "Fade" /\ call.profile # "TrueColor") =>
            /\ pc = "done"
            /\ ret.state = "returned"
            /\ ret.out = raw(call.content)
            /\ ret.err = capabilityError
            /\ ret.err # nil
            /\ parsed = <<>> /\ fadedSegments = <<>> /\ builder = <<>>)
    /\ []((ret.err = capabilityError) =>
            (call.api = "Fade" /\ call.profile # "TrueColor"))
    /\ [][(call'.api = "Fade" /\ call'.profile # "TrueColor") =>
            UNCHANGED <<parsed, fadedSegments, builder, idx,
                        interpCache, rgbCache, hslCache>>]_vars

\* Fade has returned on a 256 colour terminal, with a content of two
\* segments, in a process whose interpolation cache is not empty.
C9_Witness ==
    /\ call.api = "Fade" /\ call.profile = "ANSI256" /\ pc = "done"
    /\ Len(call.content) = 2
    /\ ret.out = raw(call.content) /\ ret.err # nil
    /\ interpCache # emptyMap

\* Interpolate in a process that has not called it before: the hex it
\* returns, and its error.
InterpolateOnEmptyCache(hexBackground, hexForeground, interpolation) ==
    IF rev = "R1"
    THEN InterpolateR1(hexBackground, hexForeground, interpolation)
    ELSE IF rev = "R2"
    THEN With(InterpolateR2(emptyMap, emptyMap, hexBackground,
                            hexForeground, interpolation),
              LAMBDA i : [hex |-> i.hex, err |-> i.err])
    ELSE With(InterpolateR3(hexBackground, hexForeground, interpolation),
              LAMBDA i : [hex |-> i.val.Result.Hex, err |-> i.err])

\* C10: whatever calls of Interpolate came before, a call of Interpolate
\* returns the hex and the error the same call returns on an empty cache.
C10_InterpolatePure ==
    (call.api = "Interpolate" /\ ret.state = "returned") =>
        /\ ret.val.Hex =
              InterpolateOnEmptyCache(call.hexBackground, call.hexForeground,
                                      call.interpolation).hex
        /\ ret.err =
              InterpolateOnEmptyCache(call.hexBackground, call.hexForeground,
                                      call.interpolation).err

-----------------------------------------------------------------------------
(* Interpolate called directly, over a wider range of arguments *)

nearRed == <<"#", "f", "e", "0", "0", "0", "0">>
\* Upper and mixed case spellings.
RED == <<"#", "F", "F", "0", "0", "0", "0">>
Mixed == <<"#", "0", "0", "F", "f", "7", "f">>
\* Strings that are not #RRGGBB: too short, not hexadecimal, empty, too long,
\* one digit short, and with an underscore inside.
tooShort == <<"#", "f", "0", "0">>
notHex == <<"#", "g", "g", "0", "0", "0", "0">>
empty == <<>>
tooLong == <<"#", "f", "f", "0", "0", "0", "0", "0">>
oneShort == <<"#", "f", "f", "f", "0", "0">>
blackTail == <<"#", "0", "0", "0", "0", "0", "0", "_", "x">>
tailWhite == <<"x", "_", "#", "f", "f", "f", "f", "f", "f">>

\* Pairs of colours in #RRGGBB form.
ValidPairs == {<<black, white>>, <<red, blue>>, <<red, nearRed>>,
               <<red, red>>, <<RED, blue>>, <<Mixed, Mixed>>}

Malformed == {noHash, tooShort, notHex, empty, tooLong, oneShort, tailWhite}

\* Pairs with a malformed colour.
MalformedPairs == {<<m, black>> : m \in Malformed}
                  \cup {<<black, m>> : m \in {noHash, tooLong, tailWhite}}
                  \cup {<<empty, empty>>, <<blackTail, white>>}

\* Factors: below 0, 0, around 1/2, 1 and above 1.
WideFactors == {-Den, 0, (Den \div 2) - 1, Den \div 2, Den, 2 * Den}

InterpolateCalls ==
    {<<p[1], p[2], f>> : p \in ValidPairs, f \in WideFactors}
    \cup {<<p[1], p[2], Den \div 2>> : p \in MalformedPairs}
    \cup {<<noHash, black, -Den>>, <<black, tooLong, 2 * Den>>}

\* The process calls Interpolate again and again.
NextInterpolate ==
    \E a \in InterpolateCalls :
        /\ Cardinality(DOMAIN interpCache) <= MaxWarm
        /\ CallInterpolate(a[1], a[2], a[3])

InterpolateSpec == Init /\ [][NextInterpolate]_vars

\* The string is '#' and six hexadecimal digits.
wellFormed(hex) ==
    /\ Len(hex) = 7
    /\ hex[1] = "#"
    /\ \A i \in 2..7 : isHexDigit(hex[i])

\* The string with its hexadecimal digits in lower case.
lowerCased(hex) ==
    [i \in 1..Len(hex) |->
        IF isHexDigit(hex[i]) THEN LowerHex[hexDigitValue(hex[i]) + 1]
        ELSE hex[i]]

\* Interpolate has returned from a call on two colours in #RRGGBB form.
interpolatedValid ==
    /\ call.api = "Interpolate" /\ ret.state = "returned"
    /\ wellFormed(call.hexBackground) /\ wellFormed(call.hexForeground)

\* C11: on two colours in #RRGGBB form, factor 0 yields the background and
\* factor 1 the foreground, each with its hex digits in lower case.
C11_EndpointsLowerCased ==
    interpolatedValid =>
        /\ call.interpolation = 0 =>
              ret.err = nil /\ ret.val.Hex = lowerCased(call.hexBackground)
        /\ call.interpolation = Den =>
              ret.err = nil /\ ret.val.Hex = lowerCased(call.hexForeground)

\* Factor 1 on two different colours has returned the foreground.
C11_Witness ==
    /\ interpolatedValid
    /\ call.hexBackground = red /\ call.hexForeground = blue
    /\ call.interpolation = Den
    /\ ret.val.Hex = blue

\* C11 as stated: factor 0 returns the background string and factor 1 the
\* foreground string.
C11_EndpointsReturned ==
    interpolatedValid =>
        /\ call.interpolation = 0 =>
              ret.err = nil /\ ret.val.Hex = call.hexBackground
        /\ call.interpolation = Den =>
              ret.err = nil /\ ret.val.Hex = call.hexForeground

\* C12: a factor below 0 yields what factor 0 yields, a factor above 1 what
\* factor 1 yields, and the call is not rejected.
C12_FactorClamped ==
    interpolatedValid =>
        /\ ret.err = nil
        /\ call.interpolation < 0 =>
              ret.val.Hex = Interpolate(call.hexBackground,
                                        call.hexForeground, 0).hex
        /\ call.interpolation > Den =>
              ret.val.Hex = Interpolate(call.hexBackground,
                                        call.hexForeground, Den).hex

\* Factor 2 on black and white has returned white.
C12_Witness ==
    /\ interpolatedValid
    /\ call.hexBackground = black /\ call.hexForeground = white
    /\ call.interpolation = 2 * Den
    /\ ret.val.Hex = white

\* The nearest integer to bg*(1-f) + fg*f, halves upwards, f in 2^-FactorBits.
nearest(bg, fg, f) == (bg * (Den - f) + fg * f + (Den \div 2)) \div Den

\* The factor brought into [0, 1].
within01(f) == IF f < 0 THEN 0 ELSE IF f > Den THEN Den ELSE f

\* C13: every channel of the result is the nearest integer to
\* bg*(1-f) + fg*f of that channel, halves upwards; so red to blue at 1/2 is
\* #800080 and black to white at 1/2 is #808080.
C13_NearestInteger ==
    interpolatedValid =>
        LET b == hexToRGB(call.hexBackground).rgb
            f == hexToRGB(call.hexForeground).rgb
            t == within01(call.interpolation)
        IN  ret.val.Hex = rgbToHex([R |-> nearest(b.R, f.R, t),
                                    G |-> nearest(b.G, f.G, t),
                                    B |-> nearest(b.B, f.B, t)])

\* C14: the same colour on both sides, at a factor in [0, 1], yields that
\* colour with its hex digits in lower case.
C14_SameColourLowerCased ==
    (/\ interpolatedValid
     /\ call.hexBackground = call.hexForeground
     /\ call.interpolation >= 0 /\ call.interpolation <= Den) =>
        ret.err = nil /\ ret.val.Hex = lowerCased(call.hexBackground)

\* Red on both sides at 1/2 has returned red.
C14_Witness ==
    /\ interpolatedValid
    /\ call.hexBackground = red /\ call.hexForeground = red
    /\ call.interpolation = Den \div 2
    /\ ret.val.Hex = red

\* C14 as stated: the same colour on both sides yields that string.
C14_SameColourReturned ==
    (/\ interpolatedValid
     /\ call.hexBackground = call.hexForeground
     /\ call.interpolation >= 0 /\ call.interpolation <= Den) =>
        ret.err = nil /\ ret.val.Hex = call.hexBackground

\* C15: when the background or the foreground is not '#' and six hex digits,
\* Interpolate returns an error and no colour.
C15_MalformedRejected ==
    (/\ call.api = "Interpolate" /\ ret.state = "returned"
     /\ \/ ~ wellFormed(call.hexBackground)
        \/ ~ wellFormed(call.hexForeground)) =>
        ret.err # nil /\ ret.val.Hex = <<>>

-----------------------------------------------------------------------------
(* The two conversions applied on their own *)

\* Channel values: the ends, one and two digit values, the middle.
Channels == {0, 1, 15, 16, 128, 255}

RgbInputs == [R : Channels, G : Channels, B : Channels]

\* Two hex digits of a channel, in lower, upper and mixed case.
DigitPairs == {<<"0", "0">>, <<"0", "a">>, <<"A", "0">>, <<"f", "F">>,
               <<"7", "f">>}

\* Strings in #RRGGBB form.
WellFormedInputs == {<<"#">> \o r \o g \o b : r, g, b \in DigitPairs}

\* A string with spaces between the channels.
spaced == <<"#", "f", "f", " ", "0", " ", "0">>

HexInputs == WellFormedInputs \cup Malformed \cup {blackTail, spaced}

\* hexToRGB(hex) is called.
CallHexToRGB(hex) ==
    /\ pc = "idle"
    /\ \E c \in {hexToRGB(hex)} :
          conv' = [fn |-> "hexToRGB", hex |-> hex, rgb |-> c.rgb, err |-> c.err]
    /\ UNCHANGED <<rev, pc, interpCache, rgbCache, hslCache, call, parsed,
                   fadedSegments, builder, idx, ret, goroutines, mu>>

\* rgbToHex(rgb) is called.
CallRgbToHex(rgb) ==
    /\ pc = "idle"
    /\ conv' = [fn |-> "rgbToHex", hex |-> rgbToHex(rgb), rgb |-> rgb,
                err |-> nil]
    /\ UNCHANGED <<rev, pc, interpCache, rgbCache, hslCache, call, parsed,
                   fadedSegments, builder, idx, ret, goroutines, mu>>

NextConv ==
    \/ \E hex \in HexInputs : CallHexToRGB(hex)
    \/ \E rgb \in RgbInputs : CallRgbToHex(rgb)

ConvSpec == Init /\ [][NextConv]_vars

\* C16: hexToRGB returns no error only on '#' and exactly six hex digits.
C16_OnlySixDigitsAccepted ==
    conv.fn = "hexToRGB" => (conv.err = nil <=> wellFormed(conv.hex))

\* C17: hexToRGB of rgbToHex(c) is c, and rgbToHex of hexToRGB(h) is h in
\* lower case for h in #RRGGBB form.
C17_MutuallyInverse ==
    /\ conv.fn = "rgbToHex" =>
          hexToRGB(conv.hex) = [rgb |-> conv.rgb, err |-> nil]
    /\ (conv.fn = "hexToRGB" /\ wellFormed(conv.hex)) =>
          conv.err = nil /\ rgbToHex(conv.rgb) = lowerCased(conv.hex)

\* hexToRGB has parsed an upper case colour with three different channels.
C17_Witness ==
    /\ conv.fn = "hexToRGB"
    /\ conv.hex = <<"#", "A", "0", "f", "F", "7", "f">>
    /\ conv.rgb = [R |-> 160, G |-> 255, B |-> 127]

\* C18: rgbToHex returns seven characters: '#', then two lower case hex
\* digits for R, for G and for B, padded with zeros; another triple gives
\* another string.
C18_SevenLowerCaseCharacters ==
    conv.fn = "rgbToHex" =>
        /\ Len(conv.hex) = 7
        /\ conv.hex[1] = "#"
        /\ \A i \in 2..7 : \E d \in 1..16 : conv.hex[i] = LowerHex[d]
        /\ 16 * hexDigitValue(conv.hex[2]) + hexDigitValue(conv.hex[3])
              = conv.rgb.R
        /\ 16 * hexDigitValue(conv.hex[4]) + hexDigitValue(conv.hex[5])
              = conv.rgb.G
        /\ 16 * hexDigitValue(conv.hex[6]) + hexDigitValue(conv.hex[7])
              = conv.rgb.B
        /\ \A other \in RgbInputs :
              other # conv.rgb => rgbToHex(other) # conv.hex

\* rgbToHex has printed a triple with a one digit channel and letters.
C18_Witness ==
    /\ conv.fn = "rgbToHex"
    /\ conv.rgb = [R |-> 1, G |-> 255, B |-> 16]
    /\ conv.hex = <<"#", "0", "1", "f", "f", "1", "0">>

-----------------------------------------------------------------------------
(* R2: goroutines inside the two caches, src/unnamed/part_000:49-158, 310-348 *)

\* The most goroutines started.
MaxGoroutines == 2

\* Keys of the colour cache asked for concurrently.
ColourKeys == {black, white, noHash, tooLong}

\* Arguments of concurrent calls of Interpolate.
ConcurrentCalls == {<<black, white, Den \div 2>>,
                    <<black, white, (Den \div 2) - 1>>,
                    <<white, noHash, Den \div 2>>}

\* What the sequential operations leave alone.
sequentialVars == <<rev, pc, call, parsed, fadedSegments, builder, idx, ret, conv>>

\* A goroutine about to run op: its arguments, its position and its locals.
goroutine(op, at, hex, hexBackground, hexForeground, interpolation) ==
    [op |-> op, pc |-> at, hex |-> hex, rgb |-> zeroRgb, hsl |-> zeroHsl,
     err |-> nil, hexBackground |-> hexBackground,
     hexForeground |-> hexForeground, interpolation |-> interpolation,
     stage |-> "none", background |-> zeroRgb, result |-> <<>>]

\* go func() { globalColourCache.getRGB(hex) }()
GoGetRGB(hex) ==
    /\ rev = "R2" /\ pc = "idle"
    /\ Len(goroutines) < MaxGoroutines
    /\ goroutines' = Append(goroutines,
                            goroutine("getRGB", "rgbRLock", hex, <<>>, <<>>, 0))
    /\ UNCHANGED <<interpCache, rgbCache, hslCache, mu, sequentialVars>>

\* go func() { globalColourCache.getHSL(hex) }()
GoGetHSL(hex) ==
    /\ rev = "R2" /\ pc = "idle"
    /\ Len(goroutines) < MaxGoroutines
    /\ goroutines' = Append(goroutines,
                            goroutine("getHSL", "hslRLock", hex, <<>>, <<>>, 0))
    /\ UNCHANGED <<interpCache, rgbCache, hslCache, mu, sequentialVars>>

\* go func() { Interpolate(hexBackground, hexForeground, interpolation) }()
GoInterpolate(hexBackground, hexForeground, interpolation) ==
    /\ rev = "R2" /\ pc = "idle"
    /\ Len(goroutines) < MaxGoroutines
    /\ goroutines' = Append(goroutines,
                            goroutine("Interpolate", "getRLock", <<>>,
                                      hexBackground, hexForeground,
                                      interpolation))
    /\ UNCHANGED <<interpCache, rgbCache, hslCache, mu, sequentialVars>>

\* Goroutine g is at position p.
at(g, p) == g \in DOMAIN goroutines /\ goroutines[g].pc = p

\* sync.RWMutex.
canRLock(m) == m.writer = 0
canLock(m) == m.writer = 0 /\ m.readers = {}
RLock(m, g) == [m EXCEPT !.readers = @ \cup {g}]
RUnlock(m, g) == [m EXCEPT !.readers = @ \ {g}]
Lock(m, g) == [m EXCEPT !.writer = g]
Unlock(m, g) == [m EXCEPT !.writer = 0]

\* The goroutine after getRGB has returned to its caller: getRGB itself,
\* getHSL (lines 134-137) or Interpolate (lines 318-345).
returnFromGetRGB(r) ==
    IF r.op = "getRGB" THEN [r EXCEPT !.pc = "returned"]
    ELSE IF r.err # nil THEN [r EXCEPT !.pc = "returned"]
    ELSE IF r.op = "getHSL" THEN [r EXCEPT !.pc = "hslLock"]
    ELSE IF r.stage = "background"
    THEN [r EXCEPT !.background = r.rgb, !.hex = r.hexForeground,
                   !.stage = "foreground", !.pc = "rgbRLock"]
    ELSE [r EXCEPT !.result = rgbToHex(interpolateRgb(r.background, r.rgb,
                                                      r.interpolation)),
                   !.pc = "setLock"]

\* getRGB, line 101: c.mu.RLock()
getRGB_RLock(g) ==
    /\ at(g, "rgbRLock") /\ canRLock(mu.colour)
    /\ mu' = [mu EXCEPT !.colour = RLock(@, g)]
    /\ goroutines' = [goroutines EXCEPT ![g].pc = "rgbRead"]
    /\ UNCHANGED <<interpCache, rgbCache, hslCache, sequentialVars>>

\* getRGB, line 102: rgb, ok := c.rgb[hex]
getRGB_Read(g) ==
    /\ at(g, "rgbRead")
    /\ goroutines' =
          [goroutines EXCEPT ![g] =
              IF goroutines[g].hex \in DOMAIN rgbCache
              THEN [goroutines[g] EXCEPT !.rgb = rgbCache[goroutines[g].hex],
                                         !.pc = "rgbHit"]
              ELSE [goroutines[g] EXCEPT !.pc = "rgbMiss"]]
    /\ UNCHANGED <<interpCache, rgbCache, hslCache, mu, sequentialVars>>

\* getRGB, lines 103-106: c.mu.RUnlock(), and the return on a hit.
getRGB_RUnlock(g) ==
    /\ at(g, "rgbHit") \/ at(g, "rgbMiss")
    /\ mu' = [mu EXCEPT !.colour = RUnlock(@, g)]
    /\ goroutines' =
          [goroutines EXCEPT ![g] =
              IF goroutines[g].pc = "rgbHit"
              THEN returnFromGetRGB(goroutines[g])
              ELSE [goroutines[g] EXCEPT !.pc = "rgbLock"]]
    /\ UNCHANGED <<interpCache, rgbCache, hslCache, sequentialVars>>

\* A variant of line 109 that takes the read lock.
getRGB_LockShared(g) ==
    /\ at(g, "rgbLock") /\ canRLock(mu.colour)
    /\ mu' = [mu EXCEPT !.colour = RLock(@, g)]
    /\ goroutines' = [goroutines EXCEPT ![g].pc = "rgbRecheck"]
    /\ UNCHANGED <<interpCache, rgbCache, hslCache, sequentialVars>>

\* getRGB, line 109: c.mu.Lock()
getRGB_Lock(g) ==
    /\ at(g, "rgbLock") /\ canLock(mu.colour)
    /\ mu' = [mu EXCEPT !.colour = Lock(@, g)]
    /\ goroutines' = [goroutines EXCEPT ![g].pc = "rgbRecheck"]
    /\ UNCHANGED <<interpCache, rgbCache, hslCache, sequentialVars>>

\* A variant of lines 112-119 without the second look at the map.
getRGB_RecheckSkipped(g) ==
    /\ at(g, "rgbRecheck")
    /\ \E c \in {hexToRGB(goroutines[g].hex)} :
          goroutines' =
              [goroutines EXCEPT ![g] =
                  IF c.err # nil
                  THEN [goroutines[g] EXCEPT !.err = c.err, !.pc = "rgbUnlock"]
                  ELSE [goroutines[g] EXCEPT !.rgb = c.rgb, !.pc = "rgbStore"]]
    /\ UNCHANGED <<interpCache, rgbCache, hslCache, mu, sequentialVars>>

\* getRGB, lines 112-119: the second look at the map under the write lock,
\* and hexToRGB when the key is still missing.
getRGB_Recheck(g) ==
    /\ at(g, "rgbRecheck")
    /\ \E c \in {hexToRGB(goroutines[g].hex)} :
          goroutines' =
              [goroutines EXCEPT ![g] =
                  IF goroutines[g].hex \in DOMAIN rgbCache
                  THEN [goroutines[g] EXCEPT
                           !.rgb = rgbCache[goroutines[g].hex],
                           !.pc = "rgbUnlock"]
                  ELSE IF c.err # nil
                  THEN [goroutines[g] EXCEPT !.err = c.err, !.pc = "rgbUnlock"]
                  ELSE [goroutines[g] EXCEPT !.rgb = c.rgb, !.pc = "rgbStore"]]
    /\ UNCHANGED <<interpCache, rgbCache, hslCache, mu, sequentialVars>>

\* getRGB, line 120: c.rgb[hex] = rgb
getRGB_Store(g) ==
    /\ at(g, "rgbStore")
    /\ rgbCache' = store(rgbCache, goroutines[g].hex, goroutines[g].rgb)
    /\ goroutines' = [goroutines EXCEPT ![g].pc = "rgbUnlock"]
    /\ UNCHANGED <<interpCache, hslCache, mu, sequentialVars>>

\* getRGB, line 110: the deferred c.mu.Unlock(), and the return.
getRGB_Unlock(g) ==
    /\ at(g, "rgbUnlock")
    /\ mu' = [mu EXCEPT !.colour = Unlock(@, g)]
    /\ goroutines' = [goroutines EXCEPT ![g] = returnFromGetRGB(goroutines[g])]
    /\ UNCHANGED <<interpCache, rgbCache, hslCache, sequentialVars>>

\* getHSL, line 126: c.mu.RLock()
getHSL_RLock(g) ==
    /\ at(g, "hslRLock") /\ canRLock(mu.colour)
    /\ mu' = [mu EXCEPT !.colour = RLock(@, g)]
    /\ goroutines' = [goroutines EXCEPT ![g].pc = "hslRead"]
    /\ UNCHANGED <<interpCache, rgbCache, hslCache, sequentialVars>>

\* getHSL, line 127: hsl, ok := c.hsl[hex]
getHSL_Read(g) ==
    /\ at(g, "hslRead")
    /\ goroutines' =
          [goroutines EXCEPT ![g] =
              IF goroutines[g].hex \in DOMAIN hslCache
              THEN [goroutines[g] EXCEPT !.hsl = hslCache[goroutines[g].hex],
                                         !.pc = "hslHit"]
              ELSE [goroutines[g] EXCEPT !.pc = "hslMiss"]]
    /\ UNCHANGED <<interpCache, rgbCache, hslCache, mu, sequentialVars>>

\* A variant of lines 128-134 that keeps the read lock on a miss, and calls
\* getRGB holding it.
getHSL_RUnlockOnHitOnly(g) ==
    /\ at(g, "hslHit") \/ at(g, "hslMiss")
    /\ mu' = IF goroutines[g].pc = "hslHit"
             THEN [mu EXCEPT !.colour = RUnlock(@, g)] ELSE mu
    /\ goroutines' =
          [goroutines EXCEPT ![g].pc =
              IF goroutines[g].pc = "hslHit" THEN "returned" ELSE "rgbRLock"]
    /\ UNCHANGED <<interpCache, rgbCache, hslCache, sequentialVars>>

\* getHSL, lines 128-134: c.mu.RUnlock(); the return on a hit, the call of
\* getRGB on a miss, with no lock held.
getHSL_RUnlock(g) ==
    /\ at(g, "hslHit") \/ at(g, "hslMiss")
    /\ mu' = [mu EXCEPT !.colour = RUnlock(@, g)]
    /\ goroutines' =
          [goroutines EXCEPT ![g].pc =
              IF goroutines[g].pc = "hslHit" THEN "returned" ELSE "rgbRLock"]
    /\ UNCHANGED <<interpCache, rgbCache, hslCache, sequentialVars>>

\* getHSL, line 139: c.mu.Lock()
getHSL_Lock(g) ==
    /\ at(g, "hslLock") /\ canLock(mu.colour)
    /\ mu' = [mu EXCEPT !.colour = Lock(@, g)]
    /\ goroutines' = [goroutines EXCEPT ![g].pc = "hslRecheck"]
    /\ UNCHANGED <<interpCache, rgbCache, hslCache, sequentialVars>>

\* getHSL, lines 143-155: the second look at the map under the write lock,
\* and rgbToHSL when the key is still missing.
getHSL_Recheck(g) ==
    /\ at(g, "hslRecheck")
    /\ goroutines' =
          [goroutines EXCEPT ![g] =
              IF goroutines[g].hex \in DOMAIN hslCache
              THEN [goroutines[g] EXCEPT
                       !.hsl = hslCache[goroutines[g].hex],
                       !.pc = "hslUnlock"]
              ELSE [goroutines[g] EXCEPT
                       !.hsl = scaleHsl(rgbToHSL(goroutines[g].rgb)),
                       !.pc = "hslStore"]]
    /\ UNCHANGED <<interpCache, rgbCache, hslCache, mu, sequentialVars>>

\* getHSL, line 156: c.hsl[hex] = result
getHSL_Store(g) ==
    /\ at(g, "hslStore")
    /\ hslCache' = store(hslCache, goroutines[g].hex, goroutines[g].hsl)
    /\ goroutines' = [goroutines EXCEPT ![g].pc = "hslUnlock"]
    /\ UNCHANGED <<interpCache, rgbCache, mu, sequentialVars>>

\* getHSL, line 140: the deferred c.mu.Unlock(), and the return.
getHSL_Unlock(g) ==
    /\ at(g, "hslUnlock")
    /\ mu' = [mu EXCEPT !.colour = Unlock(@, g)]
    /\ goroutines' = [goroutines EXCEPT ![g].pc = "returned"]
    /\ UNCHANGED <<interpCache, rgbCache, hslCache, sequentialVars>>

\* interpolationCache.get, line 81: c.mu.RLock()
get_RLock(g) ==
    /\ at(g, "getRLock") /\ canRLock(mu.interp)
    /\ mu' = [mu EXCEPT !.interp = RLock(@, g)]
    /\ goroutines' = [goroutines EXCEPT ![g].pc = "getRead"]
    /\ UNCHANGED <<interpCache, rgbCache, hslCache, sequentialVars>>

\* interpolationCache.get, line 82: val, ok := c.cache[key]
get_Read(g) ==
    /\ at(g, "getRead")
    /\ \E key \in {generateCacheKey(goroutines[g].hexBackground,
                                    goroutines[g].hexForeground,
                                    goroutines[g].interpolation)} :
          goroutines' =
              [goroutines EXCEPT ![g] =
                  IF key \in DOMAIN interpCache
                  THEN [goroutines[g] EXCEPT !.result = interpCache[key],
                                             !.pc = "getHit"]
                  ELSE [goroutines[g] EXCEPT !.pc = "getMiss"]]
    /\ UNCHANGED <<interpCache, rgbCache, hslCache, mu, sequentialVars>>

\* interpolationCache.get, lines 83-84, and Interpolate, lines 313-318: the
\* return on a hit, the call of getRGB(hexBackground) on a miss.
get_RUnlock(g) ==
    /\ at(g, "getHit") \/ at(g, "getMiss")
    /\ mu' = [mu EXCEPT !.interp = RUnlock(@, g)]
    /\ goroutines' =
          [goroutines EXCEPT ![g] =
              IF goroutines[g].pc = "getHit"
              THEN [goroutines[g] EXCEPT !.pc = "returned"]
              ELSE [goroutines[g] EXCEPT !.hex = goroutines[g].hexBackground,
                                         !.stage = "background",
                                         !.pc = "rgbRLock"]]
    /\ UNCHANGED <<interpCache, rgbCache, hslCache, sequentialVars>>

\* interpolationCache.set, line 89: c.mu.Lock()
set_Lock(g) ==
    /\ at(g, "setLock") /\ canLock(mu.interp)
    /\ mu' = [mu EXCEPT !.interp = Lock(@, g)]
    /\ goroutines' = [goroutines EXCEPT ![g].pc = "setStore"]
    /\ UNCHANGED <<interpCache, rgbCache, hslCache, sequentialVars>>

\* interpolationCache.set, line 90: c.cache[key] = value
set_Store(g) ==
    /\ at(g, "setStore")
    /\ interpCache' = store(interpCache,
                            generateCacheKey(goroutines[g].hexBackground,
                                             goroutines[g].hexForeground,
                                             goroutines[g].interpolation),
                            goroutines[g].result)
    /\ goroutines' = [goroutines EXCEPT ![g].pc = "setUnlock"]
    /\ UNCHANGED <<rgbCache, hslCache, mu, sequentialVars>>

\* interpolationCache.set, line 91: c.mu.Unlock(), and Interpolate's return.
set_Unlock(g) ==
    /\ at(g, "setUnlock")
    /\ mu' = [mu EXCEPT !.interp = Unlock(@, g)]
    /\ goroutines' = [goroutines EXCEPT ![g].pc = "returned"]
    /\ UNCHANGED <<interpCache, rgbCache, hslCache, sequentialVars>>

NextConcurrent ==
    \/ \E hex \in ColourKeys : GoGetRGB(hex)
    \/ \E hex \in ColourKeys : GoGetHSL(hex)
    \/ \E a \in ConcurrentCalls : GoInterpolate(a[1], a[2], a[3])
    \/ \E g \in 1..MaxGoroutines :
          \/ getRGB_RLock(g) \/ getRGB_Read(g) \/ getRGB_RUnlock(g)
          \/ getRGB_Lock(g) \/ getRGB_Recheck(g) \/ getRGB_Store(g)
          \/ getRGB_Unlock(g)
          \/ getHSL_RLock(g) \/ getHSL_Read(g) \/ getHSL_RUnlock(g)
          \/ getHSL_Lock(g) \/ getHSL_Recheck(g) \/ getHSL_Store(g)
          \/ getHSL_Unlock(g)
          \/ get_RLock(g) \/ get_Read(g) \/ get_RUnlock(g)
          \/ set_Lock(g) \/ set_Store(g) \/ set_Unlock(g)

ConcurrentSpec == Init /\ [][NextConcurrent]_vars

\* The positions at which a goroutine reads, and writes, each of the maps.
Reads == [rgb |-> {"rgbRead", "rgbRecheck"},
          hsl |-> {"hslRead", "hslRecheck"},
          interp |-> {"getRead"}]
Writes == [rgb |-> {"rgbStore"}, hsl |-> {"hslStore"}, interp |-> {"setStore"}]

\* The mutex that guards a map.
mutexOf(map) == IF map = "interp" THEN mu.interp ELSE mu.colour

\* C19: a goroutine about to read a map holds the read or the write lock of
\* that map's cache, a goroutine about to write it holds the write lock, and
\* no other goroutine is about to read or write that map then.
C19_MapAccessUnderLock ==
    \A map \in {"rgb", "hsl", "interp"} : \A g \in DOMAIN goroutines :
        /\ goroutines[g].pc \in Reads[map] =>
              g \in mutexOf(map).readers \/ mutexOf(map).writer = g
        /\ goroutines[g].pc \in Writes[map] =>
              /\ mutexOf(map).writer = g
              /\ mutexOf(map).readers = {}
              /\ \A h \in DOMAIN goroutines \ {g} :
                    goroutines[h].pc \notin Reads[map] \cup Writes[map]

\* One goroutine is about to write c.rgb while another waits for the read
\* lock of the same cache.
C19_Witness ==
    /\ Len(goroutines) = 2
    /\ goroutines[1].pc = "rgbStore"
    /\ goroutines[2].pc = "rgbRLock"
    /\ goroutines[1].hex = goroutines[2].hex

\* Goroutine g has returned from op on key hex without an error.
got(g, op, hex) ==
    /\ goroutines[g].op = op /\ goroutines[g].pc = "returned"
    /\ goroutines[g].hex = hex /\ goroutines[g].err = nil

\* C20: getRGB and getHSL on a valid key return the stored entry, the same
\* to every caller; a key is stored only while it is missing from its map;
\* and a stored entry keeps its value.
C20_ComputeOnce ==
    /\ [](\A g \in DOMAIN goroutines :
            /\ (/\ goroutines[g].op \in {"getRGB", "getHSL"}
                /\ goroutines[g].pc = "returned"
                /\ wellFormed(goroutines[g].hex)) => goroutines[g].err = nil
            /\ got(g, "getRGB", goroutines[g].hex) =>
                  /\ goroutines[g].hex \in DOMAIN rgbCache
                  /\ rgbCache[goroutines[g].hex] = goroutines[g].rgb
            /\ got(g, "getHSL", goroutines[g].hex) =>
                  /\ goroutines[g].hex \in DOMAIN hslCache
                  /\ hslCache[goroutines[g].hex] = goroutines[g].hsl
            /\ \A h \in DOMAIN goroutines :
                  /\ (got(g, "getRGB", goroutines[g].hex)
                      /\ got(h, "getRGB", goroutines[g].hex)) =>
                        goroutines[g].rgb = goroutines[h].rgb
                  /\ (got(g, "getHSL", goroutines[g].hex)
                      /\ got(h, "getHSL", goroutines[g].hex)) =>
                        goroutines[g].hsl = goroutines[h].hsl)
    /\ [][\A g \in DOMAIN goroutines :
            /\ (goroutines[g].pc = "rgbStore" /\ goroutines'[g].pc # "rgbStore")
                  => goroutines[g].hex \notin DOMAIN rgbCache
            /\ (goroutines[g].pc = "hslStore" /\ goroutines'[g].pc # "hslStore")
                  => goroutines[g].hex \notin DOMAIN hslCache]_vars
    /\ [][/\ \A k \in DOMAIN rgbCache :
                k \in DOMAIN rgbCache' /\ rgbCache'[k] = rgbCache[k]
          /\ \A k \in DOMAIN hslCache :
                k \in DOMAIN hslCache' /\ hslCache'[k] = hslCache[k]]_vars

\* Two goroutines have missed the same key in getRGB: one has stored it and
\* still holds the write lock, the other waits for that lock.
C20_Witness ==
    /\ Len(goroutines) = 2
    /\ goroutines[1].op = "getRGB" /\ goroutines[2].op = "getRGB"
    /\ goroutines[1].hex = black /\ goroutines[2].hex = black
    /\ goroutines[1].pc = "rgbUnlock" /\ goroutines[2].pc = "rgbLock"
    /\ black \in DOMAIN rgbCache

-----------------------------------------------------------------------------
(* Claims about fade: scenario, end points, colour mode *)

\* The content is the one segment "Red text" with a red foreground and no
\* background, faded at 1/2 on a black terminal with a white foreground, in
\* true colour.
redTextScenario ==
    /\ inFade /\ pc = "done"
    /\ Len(call.content) = 1
    /\ original(1).Label = "Red text"
    /\ original(1).FgCol = Red
    /\ ~hasColour(original(1).BgCol)
    /\ call.termBg = black /\ call.termFg = white
    /\ call.colourMode = "TrueColour"
    /\ call.interpolation = Den \div 2

C22_NoFadeAtOne ==
    (inFade /\ call.interpolation >= Den) =>
        \A i \in 1..idx :
            /\ hasColour(original(i).BgCol) =>
                  /\ faded(i).BgCol.Hex = lowerCased(original(i).BgCol.Hex)
                  /\ faded(i).BgCol.Rgb = hexToRGB(original(i).BgCol.Hex).rgb
            /\ hasColour(original(i).FgCol) =>
                  /\ faded(i).FgCol.Hex = lowerCased(original(i).FgCol.Hex)
                  /\ faded(i).FgCol.Rgb = hexToRGB(original(i).FgCol.Hex).rgb

\* A fade at factor 2 of red on white, on a black terminal, is over.
C22_Witness ==
    /\ inFade /\ pc = "done" /\ ret.state = "returned" /\ ret.err = nil
    /\ call.interpolation = 2 * Den
    /\ call.termBg = black
    /\ Len(call.content) = 1
    /\ original(1).FgCol = Red /\ original(1).BgCol = White
    /\ faded(1).FgCol.Hex = red /\ faded(1).BgCol.Hex = white

C24_ColourModeTag ==
    inFade =>
        /\ \A i \in 1..idx : faded(i).ColourMode = call.colourMode
        /\ (pc = "done" /\ ret.state = "returned" /\ ret.err = nil) =>
              \A i \in 1..Len(ret.out.segs) :
                  ret.out.segs[i].ColourMode = call.colourMode
        /\ call.api = "Fade" => call.colourMode = "TrueColour"

\* Fade has returned two segments the parser had tagged default and 256
\* colour: both are tagged true colour.
C24_Witness ==
    /\ inFade /\ call.api = "Fade"
    /\ pc = "done" /\ ret.state = "returned" /\ ret.err = nil
    /\ Len(ret.out.segs) = 2
    /\ original(1).ColourMode = "Default"
    /\ original(2).ColourMode = "TwoFiveSix"
    /\ ret.out.segs[1].ColourMode = "TrueColour"
    /\ ret.out.segs[2].ColourMode = "TrueColour"

-----------------------------------------------------------------------------
(* interpolateChannel applied on its own *)

\* Values of a channel: the ends and the middle of [0, 255].
ChannelValues == {0, 1, 127, 128, 254, 255}

\* Factors in [0, 1]: the ends, a quarter, a third, and around a half.
UnitFactors == {0, 1, Den \div 4, Den \div 3, (Den \div 2) - 1, Den \div 2,
                (Den \div 2) + 1, Den - 1, Den}

\* interpolateChannel(bg, fg, 1 - interpolation, interpolation) is called.
CallInterpolateChannel(bg, fg, interpolation) ==
    /\ pc = "idle"
    /\ conv' = [fn |-> "interpolateChannel", bg |-> bg, fg |-> fg,
                bgWeight |-> Den - interpolation, fgWeight |-> interpolation,
                val |-> interpolateChannel(bg, fg, Den - interpolation,
                                           interpolation)]
    /\ UNCHANGED <<rev, pc, interpCache, rgbCache, hslCache, call, parsed,
                   fadedSegments, builder, idx, ret, goroutines, mu>>

NextChannel ==
    \E bg \in ChannelValues, fg \in ChannelValues, f \in UnitFactors :
        CallInterpolateChannel(bg, fg, f)

ChannelSpec == Init /\ [][NextChannel]_vars

\* C25: with weights 1 - factor and factor, factor in [0, 1],
\* interpolateChannel returns a value from the smaller to the larger of bg
\* and fg, and the rounded sum it converts to 8 bits is that value: the
\* conversion does not wrap.
C25_ChannelBetweenEnds ==
    conv.fn = "interpolateChannel" =>
        /\ conv.val >= Min2(conv.bg, conv.fg)
        /\ conv.val <= Max2(conv.bg, conv.fg)
        /\ conv.val >= 0 /\ conv.val <= 255
        /\ (conv.bg * conv.bgWeight + conv.fg * conv.fgWeight
            + (Den \div 2)) \div Den = conv.val

\* interpolateChannel has returned 128 for 0 and 255 at 1/2.
C25_Witness ==
    /\ conv.fn = "interpolateChannel"
    /\ conv.bg = 0 /\ conv.fg = 255
    /\ conv.fgWeight = Den \div 2
    /\ conv.val = 128

-----------------------------------------------------------------------------
(* Claims about the descriptors fade writes *)

\* The descriptors fade wrote in the i-th segment (i <= idx): the
\* foreground's, and the background's when the loop faded it (R1:
\* updateSegmentColours writes both in every iteration).
written(i) ==
    {faded(i).FgCol}
    \cup (IF rev = "R1" \/ fadesBackground(original(i))
          THEN {c \in {faded(i).BgCol} : ~c.isNil} ELSE {})

\* The library's H, S, L (degrees, [0,1], [0,1]) as degrees and percent.
degreesAndPercent(v) == [H |-> v.H, S |-> v.S * 100, L |-> v.L * 100]

\* C26: every HSL triple fade writes into a descriptor has its hue in
\* [0, 360) and its saturation and lightness in [0, 100], and is the library's
\* triple of the descriptor's RGB with saturation and lightness as percent.
C26_HslDegreesAndPercent ==
    inFade =>
        \A i \in 1..idx : \A col \in written(i) :
            /\ col.Hsl.H >= 0 /\ col.Hsl.H < 360000
            /\ col.Hsl.S >= 0 /\ col.Hsl.S <= 100000
            /\ col.Hsl.L >= 0 /\ col.Hsl.L <= 100000
            /\ col.Hsl = degreesAndPercent(rgbToHSL(col.Rgb))

\* fade has returned without an error.
succeeded == inFade /\ pc = "done" /\ ret.state = "returned" /\ ret.err = nil

\* C27: after a successful fade every descriptor fade wrote has an RGB triple
\* equal to hexToRGB of its hex string and the HSL triple derived from that
\* RGB triple, hue in degrees, saturation and lightness as percent.
C27_ThreeFormsOneColour ==
    succeeded =>
        \A i \in 1..idx : \A col \in written(i) :
            /\ hexToRGB(col.Hex).err = nil
            /\ col.Rgb = hexToRGB(col.Hex).rgb
            /\ col.Hsl = degreesAndPercent(rgbToHSL(hexToRGB(col.Hex).rgb))

-----------------------------------------------------------------------------
(* R2: the goroutines under a fair scheduler *)

\* A step of goroutine g.
step(g) ==
    \/ getRGB_RLock(g) \/ getRGB_Read(g) \/ getRGB_RUnlock(g)
    \/ getRGB_Lock(g) \/ getRGB_Recheck(g) \/ getRGB_Store(g)
    \/ getRGB_Unlock(g)
    \/ getHSL_RLock(g) \/ getHSL_Read(g) \/ getHSL_RUnlock(g)
    \/ getHSL_Lock(g) \/ getHSL_Recheck(g) \/ getHSL_Store(g)
    \/ getHSL_Unlock(g)
    \/ get_RLock(g) \/ get_Read(g) \/ get_RUnlock(g)
    \/ set_Lock(g) \/ set_Store(g) \/ set_Unlock(g)

\* The Go scheduler runs every goroutine that can take a step; nothing
\* obliges the program to start a goroutine.
ConcurrentFairSpec ==
    ConcurrentSpec /\ \A g \in 1..MaxGoroutines : WF_vars(step(g))

\* The positions at which a goroutine asks for a lock.
Acquires == {"rgbRLock", "rgbLock", "hslRLock", "hslLock", "getRLock", "setLock"}

\* Goroutine g holds the read or the write lock of mutex m.
holds(m, g) == g \in m.readers \/ m.writer = g

\* C28: a goroutine that asks for a lock, or has returned, holds none (so
\* getHSL holds neither the read nor the write lock while it calls getRGB),
\* and every started call of getRGB, getHSL or Interpolate returns.
C28_EveryCallReturns ==
    /\ [](\A g \in DOMAIN goroutines :
            goroutines[g].pc \in Acquires \cup {"returned"} =>
                ~holds(mu.colour, g) /\ ~holds(mu.interp, g))
    /\ \A g \in 1..MaxGoroutines :
          (g \in DOMAIN goroutines) ~> at(g, "returned")

\* A getHSL that missed and went through getRGB, and an Interpolate that
\* stored its result, have both returned.
C28_Witness ==
    /\ Len(goroutines) = 2
    /\ goroutines[1].op = "getHSL" /\ goroutines[1].hex = black
    /\ goroutines[2].op = "Interpolate" /\ goroutines[2].hexBackground = black
    /\ at(1, "returned") /\ at(2, "returned")
    /\ black \in DOMAIN hslCache
    /\ DOMAIN interpCache # {}
    /\ mu = unlocked

-----------------------------------------------------------------------------
(* Claims about what the caches hold *)

\* The key under which goroutine g's Interpolate stores its result.
keyOf(g) ==
    generateCacheKey(goroutines[g].hexBackground, goroutines[g].hexForeground,
                     goroutines[g].interpolation)

\* C29: a getRGB or getHSL that has returned from a call on a string that is
\* not '#' and six hexadecimal digits has returned an error, and the string
\* is a key of neither map; an Interpolate that has returned an error has
\* left no entry under its key; every key of the hsl map is a key of the rgb
\* map; and every cached value is the conversion of its key.
C29_FailuresNotCached ==
    /\ \A g \in DOMAIN goroutines :
          /\ (goroutines[g].op \in {"getRGB", "getHSL"} /\ at(g, "returned")
              /\ ~wellFormed(goroutines[g].hex)) =>
                 /\ goroutines[g].err # nil
                 /\ goroutines[g].hex \notin DOMAIN rgbCache
                 /\ goroutines[g].hex \notin DOMAIN hslCache
          /\ (goroutines[g].op = "Interpolate" /\ at(g, "returned")
              /\ goroutines[g].err # nil) =>
                 keyOf(g) \notin DOMAIN interpCache
    /\ DOMAIN hslCache \subseteq DOMAIN rgbCache
    /\ \A k \in DOMAIN rgbCache :
          hexToRGB(k).err = nil /\ rgbCache[k] = hexToRGB(k).rgb
    /\ \A k \in DOMAIN hslCache :
          hslCache[k] = scaleHsl(rgbToHSL(hexToRGB(k).rgb))

-----------------------------------------------------------------------------
(* Claims about the rewrite of a background *)

\* C30: fade does not panic, and the background descriptor of every
\* processed segment whose background was faded keeps the Id and the Name of
\* the segment's background descriptor as parsed.
C30_BackgroundKeepsIdAndName ==
    inFade =>
        /\ ret.state # "panicked"
        /\ \A i \in 1..idx :
              fadesBackground(original(i)) =>
                  /\ ~faded(i).BgCol.isNil
                  /\ faded(i).BgCol.Id = original(i).BgCol.Id
                  /\ faded(i).BgCol.Name = original(i).BgCol.Name

====
